---- MODULE Spec2Model ----
(***************************************************************************)
(* A model of glenside's tensor interpreter                                *)
(* (src/language/interpreter_new.rs).  `interpret` is a pure, recursive    *)
(* function over an index-addressed expression (egg's RecExpr) and an      *)
(* environment of tensors.  Tensors are dense row-major arrays, modelled   *)
(* as a shape and a flat data sequence; every ndarray operation the        *)
(* interpreter calls is modelled by what it does to shape and data.        *)
(* A panic (panic!, assert_eq!, unwrap of an Err, an out-of-bounds index,  *)
(* todo!) aborts the whole interpret call: it is the value kind "Panic",   *)
(* which every caller hands on unchanged.                                  *)
(***************************************************************************)
EXTENDS Integers, Sequences, FiniteSets, TLC

(***************************************************************************)
(* Bounds of the model.  A tensor of the environment has 0..MaxRank        *)
(* dimensions of sizes 1..MaxDim; the 3-dimensional tensors that windows   *)
(* are taken of have 1..MaxChannels channels of 1..MaxWindowDim rows and   *)
(* columns, and the strides range over 0..MaxStride; the two tensors of a  *)
(* cartesian product have 0..MaxPairRank dimensions.  Axis literals range  *)
(* over 0..MaxUsize, paddings over 0..MaxPad; the tensors' contents are    *)
(* chosen by seeds in 0..MaxSeed.                                          *)
(***************************************************************************)
MaxRank == 3
MaxPairRank == 2
MaxDim == 2
MaxChannels == 2
MaxWindowDim == 3
MaxStride == 2
MaxUsize == 4
MaxPad == 1
MaxSeed == 1
MaxDepth == 2
MaxLength == 6
MaxNodes == 3

\* DataType::min_value() for the tests' element type: i32::MIN = -2^31
MinValue == -2147483647 - 1

(***************************************************************************)
(* Sequences: slices of a shape.  Positions are 0-based as in the source.  *)
(***************************************************************************)
\* shape[..k]
Take(s, k) == SubSeq(s, 1, k)

\* shape[k..]
Drop(s, k) == SubSeq(s, k + 1, Len(s))

\* Dimension::remove_axis / the shape chain [..axis] ++ [axis+1..]
RemoveAt(s, axis) == Take(s, axis) \o Drop(s, axis + 1)

\* the shape (or index) with x inserted at position axis
InsertAt(s, axis, x) == Take(s, axis) \o <<x>> \o Drop(s, axis)

RECURSIVE Prod(_)
\* .iter().cloned().product(): 1 for the empty slice
Prod(s) == IF s = <<>> THEN 1 ELSE Head(s) * Prod(Tail(s))

RECURSIVE SumSeq(_)
\* .sum(): 0 for the empty array (the halves are summed apart to keep the
\* recursion shallow; integer addition is associative)
SumSeq(s) ==
    IF s = <<>> THEN 0
    ELSE IF Len(s) = 1 THEN s[1]
    ELSE SumSeq(SubSeq(s, 1, Len(s) \div 2)) + SumSeq(SubSeq(s, (Len(s) \div 2) + 1, Len(s)))

(***************************************************************************)
(* Row-major (standard layout) indexing of ArrayD.                         *)
(***************************************************************************)
RECURSIVE Ravel(_, _)
\* the flat offset of a multi-index
Ravel(idx, shape) ==
    IF idx = <<>> THEN 0
    ELSE Head(idx) * Prod(Tail(shape)) + Ravel(Tail(idx), Tail(shape))

RECURSIVE Unravel(_, _)
\* the multi-index of a flat offset
Unravel(p, shape) ==
    IF shape = <<>> THEN <<>>
    ELSE <<p \div Prod(Tail(shape))>> \o Unravel(p % Prod(Tail(shape)), Tail(shape))

\* An array: its shape and its elements in row-major order (each held as a
\* tuple: s \o <<>> is s)
ArrayD(shape, data) == [shape |-> shape \o <<>>, data |-> data \o <<>>]

\* The Err of a Result<Array, ShapeError>: no array has this form, since a
\* 0-dimensional array holds one element.
ShapeError == [shape |-> <<>>, data |-> <<>>]

ndim(t) == Len(t.shape)

\* the element at a multi-index
At(t, idx) == t.data[Ravel(idx, t.shape) + 1]

\* the multi-indices of a shape
Indices(shape) == {Unravel(p, shape) : p \in 0..(Prod(shape) - 1)}

\* the array of a shape whose element at each multi-index idx is f[idx]
from_shape_fn(shape, f) ==
    ArrayD(shape, [p \in 1..Prod(shape) |-> f[Unravel(p - 1, shape)]])

zeros(shape) == ArrayD(shape, [p \in 1..Prod(shape) |-> 0])

ones(shape) == ArrayD(shape, [p \in 1..Prod(shape) |-> 1])

\* into_shape: the same elements in the same order under another shape; Err
\* when the element counts differ.
into_shape(t, shape) ==
    IF t = ShapeError \/ Prod(shape) # Len(t.data) THEN ShapeError
    ELSE ArrayD(shape, t.data)

\* insert_axis: a new axis of length 1 (a failed array stays failed: the
\* panic that made it has already ended the call)
insert_axis(t, axis) ==
    IF t = ShapeError THEN ShapeError ELSE ArrayD(InsertAt(t.shape, axis, 1), t.data)

\* index_axis / index_axis_move: the subview at position i of an axis
index_axis(t, axis, i) ==
    from_shape_fn(RemoveAt(t.shape, axis),
        [idx \in Indices(RemoveAt(t.shape, axis)) |-> At(t, InsertAt(idx, axis, i))])

\* axis_iter: the subviews along an axis, in order
axis_iter(t, axis) ==
    [i \in 1..t.shape[axis + 1] |-> index_axis(t, axis, i - 1)] \o <<>>

\* the position along an axis where array i of a list begins, once stacked
stack_start(arrays, axis, i) ==
    SumSeq([j \in 1..(i - 1) |-> arrays[j].shape[axis + 1]])

\* the positions where the arrays of a list begin, and where the last ends
stack_starts(arrays, axis) ==
    [i \in 1..(Len(arrays) + 1) |-> stack_start(arrays, axis, i)] \o <<>>

\* the array that each position 0, 1, ... along the axis is taken from
stack_owner(start) ==
    [j \in 1..start[Len(start)] |->
        CHOOSE i \in 1..(Len(start) - 1) : start[i] < j /\ j <= start[i + 1]] \o <<>>

\* the joined array: each element comes from its owner, at the position less
\* the owner's start
stack_join(axis, arrays, start, owner) ==
    from_shape_fn([arrays[1].shape EXCEPT ![axis + 1] = start[Len(start)]],
        [idx \in Indices([arrays[1].shape EXCEPT ![axis + 1] = start[Len(start)]]) |->
            At(arrays[owner[idx[axis + 1] + 1]],
               [idx EXCEPT ![axis + 1] = @ - start[owner[idx[axis + 1] + 1]]])])

\* ndarray::stack (ndarray <= 0.14): the arrays joined along an existing
\* axis.  Err for an empty list, an axis out of bounds, or arrays that differ
\* in another dimension.  A list holding a failed array fails as a whole.
stack(axis, arrays) ==
    IF arrays = <<>> THEN ShapeError
    ELSE IF \E i \in 1..Len(arrays) : arrays[i] = ShapeError THEN ShapeError
    ELSE IF axis >= ndim(arrays[1]) THEN ShapeError
    ELSE IF \E i \in 1..Len(arrays) :
                \/ ndim(arrays[i]) # ndim(arrays[1])
                \/ RemoveAt(arrays[i].shape, axis) # RemoveAt(arrays[1].shape, axis)
         THEN ShapeError
    ELSE stack_join(axis, arrays \o <<>>, stack_starts(arrays, axis),
                    stack_owner(stack_starts(arrays, axis)))

\* slice(s![lo0..hi0, lo1..hi1, ...]): the sub-array of the given ranges; it
\* panics (here: fails) when a range reaches past the array.
slice(t, lo, hi) ==
    IF \E d \in 1..ndim(t) : lo[d] > hi[d] \/ hi[d] > t.shape[d] THEN ShapeError
    ELSE from_shape_fn([d \in 1..ndim(t) |-> hi[d] - lo[d]],
             [idx \in Indices([d \in 1..ndim(t) |-> hi[d] - lo[d]]) |->
                 At(t, [d \in 1..ndim(t) |-> lo[d] + idx[d]])])

\* the lane of an array along an axis at the given index of the other axes
lane(t, axis, idx) ==
    [i \in 1..t.shape[axis + 1] |-> At(t, InsertAt(idx, axis, i - 1))] \o <<>>

\* sum_axis: the sum along an axis
sum_axis(t, axis) ==
    from_shape_fn(RemoveAt(t.shape, axis),
        [idx \in Indices(RemoveAt(t.shape, axis)) |-> SumSeq(lane(t, axis, idx))])

\* acc * t and acc + t on arrays of one shape
array_mul(a, b) == ArrayD(a.shape, [p \in 1..Len(a.data) |-> a.data[p] * b.data[p]])

array_add(a, b) == ArrayD(a.shape, [p \in 1..Len(a.data) |-> a.data[p] + b.data[p]])

RECURSIVE fold_mul(_, _)
\* .fold(init, |acc, t| acc * t) over a list of arrays
fold_mul(s, init) ==
    IF s = <<>> THEN init ELSE fold_mul(Tail(s), array_mul(init, Head(s)))

RECURSIVE fold_add(_, _)
\* .fold(init, |acc, t| acc + t) over a list of arrays
fold_add(s, init) ==
    IF s = <<>> THEN init ELSE fold_add(Tail(s), array_add(init, Head(s)))

RECURSIVE fold_max(_, _)
\* .fold(init, |acc, v| if *v > acc { *v } else { acc }) over elements
fold_max(s, init) ==
    IF s = <<>> THEN init
    ELSE fold_max(Tail(s), IF Head(s) > init THEN Head(s) ELSE init)

\* map_axis(axis, |t| t.iter().fold(init, ..)): the fold of each lane
map_axis_fold_max(t, axis, init) ==
    from_shape_fn(RemoveAt(t.shape, axis),
        [idx \in Indices(RemoveAt(t.shape, axis)) |-> fold_max(lane(t, axis, idx), init)])

\* mapv(|v| if v >= zero { v } else { zero })
mapv_relu(t) ==
    ArrayD(t.shape, [p \in 1..Len(t.data) |-> IF t.data[p] >= 0 THEN t.data[p] ELSE 0])

(***************************************************************************)
(* enum Value<DataType> and struct Access<DataType>.  One record form for  *)
(* every variant: kind names the variant, the other fields hold its        *)
(* payload (and a default where the variant has none).  The kind "Panic"   *)
(* is the aborted call: t names what aborted it.                           *)
(***************************************************************************)
Value(kind, tensor, access_axis, u, shape, t) ==
    [kind |-> kind, tensor |-> tensor, access_axis |-> access_axis,
     u |-> u, shape |-> shape, t |-> t]

Tensor(a) == Value("Tensor", a, 0, 0, <<>>, "")

Access(a, access_axis) == Value("Access", a, access_axis, 0, <<>>, "")

Usize(u) == Value("Usize", ShapeError, 0, u, <<>>, "")

Shape(dims) == Value("Shape", ShapeError, 0, 0, dims, "")

ComputeType(t) == Value("ComputeType", ShapeError, 0, 0, <<>>, t)

PadType(t) == Value("PadType", ShapeError, 0, 0, <<>>, t)

Panic(why) == Value("Panic", ShapeError, 0, 0, <<>>, why)

IsPanic(v) == v.kind = "Panic"

\* a match that lets every variant through
Match_any(v, kind) == v

\* match v { Value::<kind>(x) => x, _ => panic!() } on an evaluated operand:
\* an operand whose own evaluation aborted has already ended the call.
Match(v, kind) ==
    IF IsPanic(v) THEN v
    ELSE IF v.kind # kind THEN Panic("KindMismatch")
    ELSE v

\* .unwrap() of an array result, then Value::Access(Access { tensor, access_axis })
unwrap_access(t, access_axis) ==
    IF t = ShapeError THEN Panic("Unwrap") ELSE Access(t, access_axis)

(***************************************************************************)
(* The arms of interpret's match, each on its evaluated, matched operands. *)
(***************************************************************************)
\* AccessSqueeze with the comparison off by one: the access axis also moves
\* when the squeezed axis is the access axis itself
AccessSqueeze_le(access, axis) ==
    IF axis >= ndim(access.tensor) THEN Panic("IndexOutOfBounds")
    ELSE IF access.tensor.shape[axis + 1] # 1 THEN Panic("SqueezeNonUnit")
    ELSE Access(index_axis(access.tensor, axis, 0),
                IF axis <= access.access_axis /\ access.access_axis > 0
                THEN access.access_axis - 1
                ELSE access.access_axis)

\* AccessSqueeze with access_axis left as it was
AccessSqueeze_kept(access, axis) ==
    IF axis >= ndim(access.tensor) THEN Panic("IndexOutOfBounds")
    ELSE IF access.tensor.shape[axis + 1] # 1 THEN Panic("SqueezeNonUnit")
    ELSE Access(index_axis(access.tensor, axis, 0), access.access_axis)

\* Language::AccessSqueeze
AccessSqueeze(access, axis) ==
    IF axis >= ndim(access.tensor) THEN Panic("IndexOutOfBounds")
    ELSE IF access.tensor.shape[axis + 1] # 1 THEN Panic("SqueezeNonUnit")
    ELSE Access(index_axis(access.tensor, axis, 0),
                IF axis < access.access_axis
                THEN access.access_axis - 1
                ELSE access.access_axis)

\* AccessPad with pad_before and pad_after exchanged
AccessPad_swapped(access, pad_type, axis, pad_before, pad_after) ==
    IF axis >= ndim(access.tensor) THEN Panic("IndexOutOfBounds")
    ELSE LET before_shape == [access.tensor.shape EXCEPT ![axis + 1] = pad_after]
             after_shape == [access.tensor.shape EXCEPT ![axis + 1] = pad_before]
         IN  unwrap_access(stack(axis, <<zeros(before_shape), access.tensor,
                                         zeros(after_shape)>>),
                           access.access_axis)

\* Language::AccessPad, PadType::ZeroPadding
AccessPad(access, pad_type, axis, pad_before, pad_after) ==
    IF axis >= ndim(access.tensor) THEN Panic("IndexOutOfBounds")
    ELSE LET before_shape == [access.tensor.shape EXCEPT ![axis + 1] = pad_before]
             after_shape == [access.tensor.shape EXCEPT ![axis + 1] = pad_after]
         IN  unwrap_access(stack(axis, <<zeros(before_shape), access.tensor,
                                         zeros(after_shape)>>),
                           access.access_axis)

\* ElementwiseMul that iterates the first axis instead of the access axis
ElementwiseMul_axis0(access) ==
    IF access.access_axis >= ndim(access.tensor) THEN Panic("IndexOutOfBounds")
    ELSE Access(fold_mul(axis_iter(access.tensor, 0),
                         ones(Drop(access.tensor.shape, 1))),
                access.access_axis)

\* ComputeType::ElementwiseMul
ElementwiseMul(access) ==
    IF access.access_axis >= ndim(access.tensor) THEN Panic("IndexOutOfBounds")
    ELSE Access(fold_mul(axis_iter(access.tensor, access.access_axis),
                         ones(Take(access.tensor.shape, access.access_axis)
                              \o Drop(access.tensor.shape, access.access_axis + 1))),
                access.access_axis)

\* ElementwiseAdd that treats an empty inner shape as an empty reduction
ElementwiseAdd_empty(access) ==
    IF access.access_axis > ndim(access.tensor) THEN Panic("IndexOutOfBounds")
    ELSE IF access.access_axis = ndim(access.tensor) THEN access
    ELSE Access(fold_add(axis_iter(access.tensor, access.access_axis),
                         zeros(Take(access.tensor.shape, access.access_axis)
                               \o Drop(access.tensor.shape, access.access_axis + 1))),
                access.access_axis)

\* ComputeType::ElementwiseAdd
ElementwiseAdd(access) ==
    IF access.access_axis >= ndim(access.tensor) THEN Panic("IndexOutOfBounds")
    ELSE Access(fold_add(axis_iter(access.tensor, access.access_axis),
                         zeros(Take(access.tensor.shape, access.access_axis)
                               \o Drop(access.tensor.shape, access.access_axis + 1))),
                access.access_axis)

\* the pairs added instead of multiplied
zip_add(a, b) ==
    LET n == IF Len(a.data) < Len(b.data) THEN Len(a.data) ELSE Len(b.data)
    IN  ArrayD(<<n>>, [p \in 1..n |-> a.data[p] + b.data[p]])

\* reshaped.axis_iter(Axis(0)).zip(acc.axis_iter(Axis(0))).map(|(a, b)| a * b)
\* collected into arr1: as long as the shorter of the two
zip_mul(a, b) ==
    LET n == IF Len(a.data) < Len(b.data) THEN Len(a.data) ELSE Len(b.data)
    IN  ArrayD(<<n>>, [p \in 1..n |-> a.data[p] * b.data[p]])

RECURSIVE fold_vec_from_acc(_, _, _)
\* DotProduct's inner fold with the rows added into the accumulator instead
\* of multiplied
fold_vec_from_acc(rows, acc, num_elements_per_vec) ==
    IF rows = <<>> THEN acc
    ELSE IF into_shape(Head(rows), <<num_elements_per_vec>>) = ShapeError THEN ShapeError
    ELSE fold_vec_from_acc(Tail(rows),
                  array_add(into_shape(Head(rows), <<num_elements_per_vec>>), acc),
                  num_elements_per_vec)

RECURSIVE fold_vec(_, _, _)
\* DotProduct's inner fold: each row of the inner block, flattened to
\* num_elements_per_vec elements, is multiplied into the accumulator
fold_vec(rows, acc, num_elements_per_vec) ==
    IF rows = <<>> THEN acc
    ELSE IF into_shape(Head(rows), <<num_elements_per_vec>>) = ShapeError THEN ShapeError
    ELSE fold_vec(Tail(rows),
                  zip_mul(into_shape(Head(rows), <<num_elements_per_vec>>), acc),
                  num_elements_per_vec)

\* DotProduct's outer map, first half: the inner fold of every block
fold_vecs(blocks, num_elements_per_vec) ==
    [i \in 1..Len(blocks) |->
        fold_vec(axis_iter(blocks[i], 0), ones(<<num_elements_per_vec>>),
                 num_elements_per_vec)] \o <<>>

\* the first product of every block instead of the sum of its products
sum_vecs_head(folded) ==
    IF \E i \in 1..Len(folded) : folded[i] = ShapeError THEN ShapeError
    ELSE ArrayD(<<Len(folded)>>, [i \in 1..Len(folded) |-> folded[i].data[1]])

\* DotProduct's outer map, second half: .sum() of every folded block,
\* collected into arr1 (failed as a whole when an inner unwrap has failed)
sum_vecs(folded) ==
    IF \E i \in 1..Len(folded) : folded[i] = ShapeError THEN ShapeError
    ELSE ArrayD(<<Len(folded)>>, [i \in 1..Len(folded) |-> SumSeq(folded[i].data)])

\* ComputeType::DotProduct; the result's access_axis is reshaped.ndim(), the
\* length of shape[..access_axis]
DotProduct(access) ==
    IF access.access_axis + 1 > ndim(access.tensor) THEN Panic("IndexOutOfBounds")
    ELSE LET shape == access.tensor.shape
             reshaped == into_shape(access.tensor,
                             <<Prod(Take(shape, access.access_axis))>>
                             \o Drop(shape, access.access_axis))
             num_elements_per_vec == Prod(Drop(shape, access.access_axis + 1))
         IN  IF reshaped = ShapeError THEN Panic("Unwrap")
             ELSE unwrap_access(
                      into_shape(sum_vecs(fold_vecs(axis_iter(reshaped, 0),
                                                    num_elements_per_vec)),
                                 Take(shape, access.access_axis)),
                      Len(Take(shape, access.access_axis)))

\* ComputeType::ReLU
ReLU(access) ==
    Access(mapv_relu(access.tensor), access.access_axis)

\* the reshape shared by ReduceSum and ReduceMax: the inner dimensions
\* collapsed into one
collapse_inner(access) ==
    into_shape(access.tensor,
               Take(access.tensor.shape, access.access_axis)
               \o <<Prod(Drop(access.tensor.shape, access.access_axis))>>)

\* ReduceSum without the reshape: only the access axis itself is summed
ReduceSum_unreshaped(access) ==
    IF access.access_axis > ndim(access.tensor) THEN Panic("IndexOutOfBounds")
    ELSE IF access.access_axis = ndim(access.tensor) THEN access
    ELSE Access(sum_axis(access.tensor, access.access_axis), access.access_axis)

\* ComputeType::ReduceSum
ReduceSum(access) ==
    IF access.access_axis > ndim(access.tensor) THEN Panic("IndexOutOfBounds")
    ELSE IF collapse_inner(access) = ShapeError THEN Panic("Unwrap")
    ELSE Access(sum_axis(collapse_inner(access), access.access_axis), access.access_axis)

\* ReduceMax whose fold starts at zero instead of the element type's minimum
ReduceMax_from_zero(access) ==
    IF access.access_axis > ndim(access.tensor) THEN Panic("IndexOutOfBounds")
    ELSE IF collapse_inner(access) = ShapeError THEN Panic("Unwrap")
    ELSE Access(map_axis_fold_max(collapse_inner(access), access.access_axis, 0),
                access.access_axis)

\* ComputeType::ReduceMax
ReduceMax(access) ==
    IF access.access_axis > ndim(access.tensor) THEN Panic("IndexOutOfBounds")
    ELSE IF collapse_inner(access) = ShapeError THEN Panic("Unwrap")
    ELSE Access(map_axis_fold_max(collapse_inner(access), access.access_axis, MinValue),
                access.access_axis)

\* Language::Compute: match compute_type
Compute(compute_type, access) ==
    CASE compute_type = "ElementwiseMul" -> ElementwiseMul(access)
      [] compute_type = "ElementwiseAdd" -> ElementwiseAdd(access)
      [] compute_type = "DotProduct" -> DotProduct(access)
      [] compute_type = "ReLU" -> ReLU(access)
      [] compute_type = "ReduceSum" -> ReduceSum(access)
      [] compute_type = "ReduceMax" -> ReduceMax(access)
\* the outer dimensions folded into one: [prod(shape[..k])] ++ shape[k..]
collapse_outer(access) ==
    into_shape(access.tensor,
               <<Prod(Take(access.tensor.shape, access.access_axis))>>
               \o Drop(access.tensor.shape, access.access_axis))

\* the second list outermost
cartesian_product_swapped(s0, s1) ==
    [p \in 1..(Len(s0) * Len(s1)) |->
        <<s0[((p - 1) % Len(s0)) + 1], s1[((p - 1) \div Len(s0)) + 1]>>] \o <<>>

\* itertools' cartesian_product of two lists: the first list outermost
cartesian_product(s0, s1) ==
    [p \in 1..(Len(s0) * Len(s1)) |->
        <<s0[((p - 1) \div Len(s1)) + 1], s1[((p - 1) % Len(s1)) + 1]>>] \o <<>>

\* every pair stacked into an array of shape [1, 2] ++ I
to_stack(pairs) ==
    [p \in 1..Len(pairs) |->
        insert_axis(stack(0, <<insert_axis(pairs[p][1], 0),
                               insert_axis(pairs[p][2], 0)>>), 0)] \o <<>>

\* the assertion comparing the whole shapes instead of the inner shapes
AccessCartesianProduct_whole(a0, a1) ==
    IF a0.access_axis > ndim(a0.tensor) \/ a1.access_axis > ndim(a1.tensor)
    THEN Panic("IndexOutOfBounds")
    ELSE IF a0.tensor.shape # a1.tensor.shape
    THEN Panic("ShapeMismatch")
    ELSE IF collapse_outer(a0) = ShapeError \/ collapse_outer(a1) = ShapeError
    THEN Panic("Unwrap")
    ELSE LET pairs == cartesian_product(axis_iter(collapse_outer(a0), 0),
                                        axis_iter(collapse_outer(a1), 0))
             unreshaped == stack(0, to_stack(pairs))
         IN  unwrap_access(
                 into_shape(unreshaped,
                            Take(a0.tensor.shape, a0.access_axis)
                            \o Take(a1.tensor.shape, a1.access_axis)
                            \o <<2>>
                            \o Drop(a0.tensor.shape, a0.access_axis)),
                 a0.access_axis + a1.access_axis)

\* Language::AccessCartesianProduct
AccessCartesianProduct(a0, a1) ==
    IF a0.access_axis > ndim(a0.tensor) \/ a1.access_axis > ndim(a1.tensor)
    THEN Panic("IndexOutOfBounds")
    ELSE IF Drop(a0.tensor.shape, a0.access_axis) # Drop(a1.tensor.shape, a1.access_axis)
    THEN Panic("ShapeMismatch")
    ELSE IF collapse_outer(a0) = ShapeError \/ collapse_outer(a1) = ShapeError
    THEN Panic("Unwrap")
    ELSE LET pairs == cartesian_product(axis_iter(collapse_outer(a0), 0),
                                        axis_iter(collapse_outer(a1), 0))
             unreshaped == stack(0, to_stack(pairs))
         IN  unwrap_access(
                 into_shape(unreshaped,
                            Take(a0.tensor.shape, a0.access_axis)
                            \o Take(a1.tensor.shape, a1.access_axis)
                            \o <<2>>
                            \o Drop(a0.tensor.shape, a0.access_axis)),
                 a0.access_axis + a1.access_axis)

\* the count of the strided starts within the tensor, whatever the filter
num_windows_whole(tensor, filters, stride) ==
    IF filters < 1 \/ filters - 1 > tensor \/ stride = 0 THEN -1
    ELSE (tensor + stride - 1) \div stride

\* the division rounding down
num_windows_floor(tensor, filters, stride) ==
    IF filters < 1 \/ filters - 1 > tensor \/ stride = 0 THEN -1
    ELSE (tensor - (filters - 1)) \div stride

\* the number of windows along one dimension:
\* ((tensor - (filters - 1)) + stride - 1) / stride in usize arithmetic.
\* -1 stands for the abort of the subtraction that would go below zero (with
\* overflow checks it panics at once; without them, for filters >= 1, the
\* wrapped count is either 0, and the stack of an empty list panics, or so
\* large that the first slice reaches past the tensor and panics) and of
\* the division by a zero stride.  No shape of this model holds a dimension
\* of 0.
num_windows(tensor, filters, stride) ==
    IF filters < 1 \/ filters - 1 > tensor \/ stride = 0 THEN -1
    ELSE ((tensor - (filters - 1)) + stride - 1) \div stride

\* the windows starting at consecutive positions whatever the strides
AccessWindows_unstrided(access, filters_shape, x_stride, y_stride) ==
    IF ndim(access.tensor) # 3 \/ access.access_axis # 3 \/ Len(filters_shape) # 3
    THEN Panic("Assert")
    ELSE LET t == access.tensor
             filters_c == filters_shape[1]
             filters_x == filters_shape[2]
             filters_y == filters_shape[3]
             num_windows_c == num_windows(t.shape[1], filters_c, 1)
             num_windows_x == num_windows(t.shape[2], filters_x, x_stride)
             num_windows_y == num_windows(t.shape[3], filters_y, y_stride)
             window(c, x, y) ==
                 insert_axis(slice(t, <<c, x, y>>,
                                      <<c + filters_c, x + filters_x, y + filters_y>>), 0)
             windows_y(c, x) ==
                 insert_axis(stack(0, [y \in 1..num_windows_y |-> window(c, x, y - 1)]), 0)
             windows_x(c) ==
                 insert_axis(stack(0, [x \in 1..num_windows_x |-> windows_y(c, x - 1)]), 0)
             out == stack(0, [c \in 1..num_windows_c |-> windows_x(c - 1)])
         IN  IF num_windows_c < 0 \/ num_windows_x < 0 \/ num_windows_y < 0
             THEN Panic("Arithmetic")
             ELSE unwrap_access(out, 3)

\* AccessWindows without the assertion on the access axis
AccessWindows_any_axis(access, filters_shape, x_stride, y_stride) ==
    IF ndim(access.tensor) # 3 \/ Len(filters_shape) # 3
    THEN Panic("Assert")
    ELSE LET t == access.tensor
             filters_c == filters_shape[1]
             filters_x == filters_shape[2]
             filters_y == filters_shape[3]
             num_windows_c == num_windows(t.shape[1], filters_c, 1)
             num_windows_x == num_windows(t.shape[2], filters_x, x_stride)
             num_windows_y == num_windows(t.shape[3], filters_y, y_stride)
             window(c, x, y) ==
                 insert_axis(slice(t, <<c, x * x_stride, y * y_stride>>,
                                      <<c + filters_c, x * x_stride + filters_x,
                                        y * y_stride + filters_y>>), 0)
             windows_y(c, x) ==
                 insert_axis(stack(0, [y \in 1..num_windows_y |-> window(c, x, y - 1)]), 0)
             windows_x(c) ==
                 insert_axis(stack(0, [x \in 1..num_windows_x |-> windows_y(c, x - 1)]), 0)
             out == stack(0, [c \in 1..num_windows_c |-> windows_x(c - 1)])
         IN  IF num_windows_c < 0 \/ num_windows_x < 0 \/ num_windows_y < 0
             THEN Panic("Arithmetic")
             ELSE unwrap_access(out, 3)

\* Language::AccessWindows
AccessWindows(access, filters_shape, x_stride, y_stride) ==
    IF ndim(access.tensor) # 3 \/ access.access_axis # 3 \/ Len(filters_shape) # 3
    THEN Panic("Assert")
    ELSE LET t == access.tensor
             filters_c == filters_shape[1]
             filters_x == filters_shape[2]
             filters_y == filters_shape[3]
             num_windows_c == num_windows(t.shape[1], filters_c, 1)
             num_windows_x == num_windows(t.shape[2], filters_x, x_stride)
             num_windows_y == num_windows(t.shape[3], filters_y, y_stride)
             window(c, x, y) ==
                 insert_axis(slice(t, <<c, x * x_stride, y * y_stride>>,
                                      <<c + filters_c, x * x_stride + filters_x,
                                        y * y_stride + filters_y>>), 0)
             windows_y(c, x) ==
                 insert_axis(stack(0, [y \in 1..num_windows_y |-> window(c, x, y - 1)]), 0)
             windows_x(c) ==
                 insert_axis(stack(0, [x \in 1..num_windows_x |-> windows_y(c, x - 1)]), 0)
             out == stack(0, [c \in 1..num_windows_c |-> windows_x(c - 1)])
         IN  IF num_windows_c < 0 \/ num_windows_x < 0 \/ num_windows_y < 0
             THEN Panic("Arithmetic")
             ELSE unwrap_access(out, 3)

\* a start past the end clamped to the end
SliceShape_clamped(s, u) ==
    IF u > Len(s) THEN Shape(<<>>) ELSE Shape(Drop(s, u))

\* Language::SliceShape: s.as_array_view().slice(s![u..])
SliceShape(s, u) ==
    IF u > Len(s) THEN Panic("IndexOutOfBounds") ELSE Shape(Drop(s, u))

\* Language::ShapeOf
ShapeOf(t) == Shape(t.shape)

\* Language::AccessTensor
AccessTensor(t) == Access(t, 0)

\* Language::Symbol: env[s.as_str()].clone()
Symbol(s, env) ==
    IF s \in DOMAIN env THEN Tensor(env[s]) ELSE Panic("MissingSymbol")

\* the operators whose arm is todo!()
Reserved ==
    {"MoveAxis", "CartesianProduct", "MapDotProduct", "Slice", "Concatenate",
     "ElementwiseAdd", "BsgSystolicArray", "SystolicArray", "AccessMoveAxis",
     "GetAccessShape", "AccessReshape", "AccessFlatten", "AccessShape",
     "AccessSlice", "AccessConcatenate", "AccessShiftRight", "AccessPair"}
(***************************************************************************)
(* Expressions: RecExpr<Language>, a sequence of nodes addressed by        *)
(* 0-based position.  A node names its operator (op), its children's       *)
(* positions (ch) and, for a leaf, its literal: u for Usize, s for Symbol, *)
(* ComputeType and PadType.                                                *)
(***************************************************************************)
\* the abort of a kind mismatch in place of the one of todo!()
todo_as_mismatch == Panic("KindMismatch")

\* todo!(): the abort "not yet implemented"
todo == Panic("Todo")

Node(op, ch, u, s) == [op |-> op, ch |-> ch, u |-> u, s |-> s]

\* The operands of an arm are evaluated and matched one after the other: the
\* first that aborts ends the call.
match_AccessSqueeze(access, axis) ==
    IF IsPanic(access) THEN access
    ELSE IF IsPanic(axis) THEN axis
    ELSE AccessSqueeze(access, axis.u)

match_AccessPad(access, pad_type, axis, pad_before, pad_after) ==
    IF IsPanic(access) THEN access
    ELSE IF IsPanic(pad_type) THEN pad_type
    ELSE IF IsPanic(axis) THEN axis
    ELSE IF IsPanic(pad_before) THEN pad_before
    ELSE IF IsPanic(pad_after) THEN pad_after
    ELSE AccessPad(access, pad_type.t, axis.u, pad_before.u, pad_after.u)

match_Compute(compute_type, access) ==
    IF IsPanic(compute_type) THEN compute_type
    ELSE IF IsPanic(access) THEN access
    ELSE Compute(compute_type.t, access)

\* the first operand matched before the second is looked at
match_AccessCartesianProduct_in_turn(a0, a1) ==
    IF IsPanic(a0) THEN a0
    ELSE IF a0.kind # "Access" THEN Panic("KindMismatch")
    ELSE IF IsPanic(a1) THEN a1
    ELSE IF a1.kind # "Access" THEN Panic("KindMismatch")
    ELSE AccessCartesianProduct(a0, a1)

\* both operands are evaluated, then the pair is matched
match_AccessCartesianProduct(a0, a1) ==
    IF IsPanic(a0) THEN a0
    ELSE IF IsPanic(a1) THEN a1
    ELSE IF a0.kind # "Access" \/ a1.kind # "Access" THEN Panic("KindMismatch")
    ELSE AccessCartesianProduct(a0, a1)

\* Language::Access: the access axis replaced, unchecked
match_Access(access, dim) ==
    IF IsPanic(access) THEN access
    ELSE IF IsPanic(dim) THEN dim
    ELSE Access(access.tensor, dim.u)

match_AccessWindows(access, filters_shape, x_stride, y_stride) ==
    IF IsPanic(access) THEN access
    ELSE IF IsPanic(filters_shape) THEN filters_shape
    ELSE IF IsPanic(x_stride) THEN x_stride
    ELSE IF IsPanic(y_stride) THEN y_stride
    ELSE AccessWindows(access, filters_shape.shape, x_stride.u, y_stride.u)

\* Language::Shape: one child, matched against Usize, before the rest
match_Shape(u, rest) ==
    IF IsPanic(u) THEN u
    ELSE IF IsPanic(rest) THEN rest
    ELSE Shape(<<u.u>> \o rest.shape)

\* both operands are evaluated, then the pair is matched
match_SliceShape(s, u) ==
    IF IsPanic(s) THEN s
    ELSE IF IsPanic(u) THEN u
    ELSE IF s.kind # "Shape" \/ u.kind # "Usize" THEN Panic("KindMismatch")
    ELSE SliceShape(s.shape, u.u)

match_ShapeOf(t) == IF IsPanic(t) THEN t ELSE ShapeOf(t.tensor)

match_AccessTensor(t) == IF IsPanic(t) THEN t ELSE AccessTensor(t.tensor)

RECURSIVE interpret(_, _, _)
RECURSIVE interpret_list(_, _, _)
\* Language::Shape: the children in order
interpret_list(expr, list, env) ==
    IF list = <<>> THEN Shape(<<>>)
    ELSE match_Shape(Match(interpret(expr, Head(list), env), "Usize"),
                     interpret_list(expr, Tail(list), env))

\* pub fn interpret(expr, index, env) -> Value
interpret(expr, index, env) ==
    IF index >= Len(expr) THEN Panic("IndexOutOfBounds")
    ELSE
    LET node == expr[index + 1]
        child(i) == interpret(expr, node.ch[i], env)
    IN  CASE node.op = "AccessSqueeze" ->
                match_AccessSqueeze(Match(child(1), "Access"), Match(child(2), "Usize"))
          [] node.op = "PadType" -> PadType(node.s)
          [] node.op = "AccessPad" ->
                match_AccessPad(Match(child(1), "Access"), Match(child(2), "PadType"),
                                Match(child(3), "Usize"), Match(child(4), "Usize"),
                                Match(child(5), "Usize"))
          [] node.op = "ComputeType" -> ComputeType(node.s)
          [] node.op = "Compute" ->
                match_Compute(Match(child(1), "ComputeType"), Match(child(2), "Access"))
          [] node.op = "AccessCartesianProduct" ->
                match_AccessCartesianProduct(child(1), child(2))
          [] node.op = "Access" ->
                match_Access(Match(child(1), "Access"), Match(child(2), "Usize"))
          [] node.op = "AccessWindows" ->
                match_AccessWindows(Match(child(1), "Access"), Match(child(2), "Shape"),
                                    Match(child(3), "Usize"), Match(child(4), "Usize"))
          [] node.op = "Shape" -> interpret_list(expr, node.ch, env)
          [] node.op = "SliceShape" -> match_SliceShape(child(1), child(2))
          [] node.op = "ShapeOf" -> match_ShapeOf(Match(child(1), "Tensor"))
          [] node.op = "AccessTensor" -> match_AccessTensor(Match(child(1), "Tensor"))
          [] node.op = "Symbol" -> Symbol(node.s, env)
          [] node.op = "Usize" -> Usize(node.u)
          [] node.op \in Reserved -> todo
(***************************************************************************)
(* The callers: the tests build an environment, parse an expression with   *)
(* RecExpr::from_str and interpret its last node.  A term is the parsed    *)
(* s-expression; from_str lays its nodes out children first, left to       *)
(* right, the root last.                                                   *)
(***************************************************************************)
Term(op, args) == [op |-> op, args |-> args, u |-> 0, s |-> ""]

Lit(u) == [op |-> "Usize", args |-> <<>>, u |-> u, s |-> ""]

Leaf(op, s) == [op |-> op, args |-> <<>>, u |-> 0, s |-> s]

RECURSIVE add_term(_, _)
RECURSIVE add_args(_, _, _)
\* the arguments of a term added in order; ids holds their positions
add_args(expr, args, ids) ==
    IF args = <<>> THEN [expr |-> expr, ids |-> ids]
    ELSE LET added == add_term(expr, Head(args))
         IN  add_args(added, Tail(args), Append(ids, Len(added) - 1))

\* a term added to an expression: its arguments first, then its own node
add_term(expr, term) ==
    LET r == add_args(expr, term.args, <<>>)
    IN  Append(r.expr, Node(term.op, r.ids, term.u, term.s))

\* RecExpr::<Language>::from_str
from_str(term) == add_term(<<>>, term)

\* "(access (access-tensor <symbol>) <dim>)"
access_term(symbol, dim) ==
    Term("Access", <<Term("AccessTensor", <<Leaf("Symbol", symbol)>>), Lit(dim)>>)

(***************************************************************************)
(* Test tensors.  The elements are taken, in row-major order, from the     *)
(* values of the tests' 3 x 2 x 2 tensor, starting at a position the seed  *)
(* chooses and stepping once more after every twelve elements; an odd seed *)
(* negates them.                                                           *)
(***************************************************************************)
TestValues == <<1, -2, 3, 0, -5, 6, 0, 8, -9, 10, 11, 12>>

test_element(seed, p) ==
    (IF seed % 2 = 0 THEN 1 ELSE -1)
    * TestValues[((p + 5 * seed + (p \div 12)) % 12) + 1]

test_tensor(shape, seed) ==
    ArrayD(shape, [p \in 1..Prod(shape) |-> test_element(seed, p - 1)])

Seeds == 0..MaxSeed

\* the shapes of n dimensions, each of size 1..MaxDim
Shapes(n) == [1..n -> 1..MaxDim]

Usizes == 0..MaxUsize

ComputeTypes ==
    {"ElementwiseMul", "ElementwiseAdd", "DotProduct", "ReLU", "ReduceSum", "ReduceMax"}

(***************************************************************************)
(* State: the environment and expression a caller has built, the index it  *)
(* interprets and the value interpret returned ("Panic": it aborted).      *)
(* Where the recursion of a call is followed step by step, call_stack     *)
(* holds the calls of interpret in progress, the outermost first, each     *)
(* with the node it evaluates and the operand it evaluates next, and calls *)
(* counts, per node, the calls of interpret made on it; values holds, per  *)
(* node, what a call of interpret on it evaluates to, which decides how    *)
(* the call before it goes on.  Elsewhere the three stay empty.            *)
(***************************************************************************)
VARIABLES env, expr, index, result, call_stack, calls, values

vars == <<env, expr, index, result, call_stack, calls, values>>

NotCalled == Value("NotCalled", ShapeError, 0, 0, <<>>, "")

\* the expression of a term and interpret(&expr, expr.as_ref().len() - 1, &env)
Run(term, e) ==
    [expr |-> from_str(term),
     index |-> Len(from_str(term)) - 1,
     result |-> interpret(from_str(term), Len(from_str(term)) - 1, e)]

\* env.insert("t", ...): one tensor
InitT ==
    /\ \E n \in 0..MaxRank : \E shape \in Shapes(n) : \E seed \in Seeds :
           env = [t |-> test_tensor(shape, seed)]
    /\ expr = <<>>
    /\ index = 0
    /\ result = NotCalled
    /\ call_stack = <<>>
    /\ calls = <<>>
    /\ values = <<>>

\* tests::compute_*: "(compute <type> (access (access-tensor t) <k>))"
InterpretCompute ==
    /\ result = NotCalled
    /\ \E compute_type \in ComputeTypes, k \in Usizes :
        LET r == Run(Term("Compute", <<Leaf("ComputeType", compute_type),
                                       access_term("t", k)>>), env)
        IN  /\ expr' = r.expr
            /\ index' = r.index
            /\ result' = r.result
    /\ UNCHANGED <<env, call_stack, calls, values>>

NextT == InterpretCompute

SpecT == InitT /\ [][NextT]_vars

\* env.insert("t", ...): one tensor, of the tests' values as they are
InitA ==
    /\ \E n \in 0..MaxRank : \E shape \in Shapes(n) :
           env = [t |-> test_tensor(shape, 0)]
    /\ expr = <<>>
    /\ index = 0
    /\ result = NotCalled
    /\ call_stack = <<>>
    /\ calls = <<>>
    /\ values = <<>>

\* tests::access_squeeze_*: "(access-squeeze (access (access-tensor t) <k>) <axis>)"
InterpretAccessSqueeze ==
    /\ result = NotCalled
    /\ \E k \in Usizes, axis \in Usizes :
        LET r == Run(Term("AccessSqueeze", <<access_term("t", k), Lit(axis)>>), env)
        IN  /\ expr' = r.expr
            /\ index' = r.index
            /\ result' = r.result
    /\ UNCHANGED <<env, call_stack, calls, values>>

\* tests::access_pad:
\* "(access-pad (access (access-tensor t) <k>) zero-padding <axis> <before> <after>)"
InterpretAccessPad ==
    /\ result = NotCalled
    /\ \E k \in Usizes, axis \in Usizes, pad_before \in 0..MaxPad, pad_after \in 0..MaxPad :
        LET r == Run(Term("AccessPad", <<access_term("t", k), Leaf("PadType", "ZeroPadding"),
                                         Lit(axis), Lit(pad_before), Lit(pad_after)>>), env)
        IN  /\ expr' = r.expr
            /\ index' = r.index
            /\ result' = r.result
    /\ UNCHANGED <<env, call_stack, calls, values>>

NextA == InterpretAccessSqueeze \/ InterpretAccessPad

SpecA == InitA /\ [][NextA]_vars

(***************************************************************************)
(* Windows.  The tensor is 3-dimensional (channels, rows, columns), as     *)
(* AccessWindows requires; the filter shapes include those that do not     *)
(* fit the tensor, the strides include 0.                                  *)
(***************************************************************************)
WindowShapes == {<<c, x, y>> : c \in 1..MaxChannels, x, y \in 1..MaxWindowDim}

Strides == 0..MaxStride

\* env.insert("t", ...): one 3-dimensional tensor
InitW ==
    /\ \E shape \in WindowShapes : env = [t |-> test_tensor(shape, 0)]
    /\ expr = <<>>
    /\ index = 0
    /\ result = NotCalled
    /\ call_stack = <<>>
    /\ calls = <<>>
    /\ values = <<>>

\* "(access-windows (access (access-tensor t) 3) (shape <c> <x> <y>) <sx> <sy>)"
access_windows_term(filters_shape, x_stride, y_stride) ==
    Term("AccessWindows",
         <<access_term("t", 3),
           Term("Shape", <<Lit(filters_shape[1]), Lit(filters_shape[2]),
                           Lit(filters_shape[3])>>),
           Lit(x_stride), Lit(y_stride)>>)

\* tests::access_windows
InterpretAccessWindows ==
    /\ result = NotCalled
    /\ \E filters_shape \in WindowShapes, x_stride \in Strides, y_stride \in Strides :
        LET r == Run(access_windows_term(filters_shape, x_stride, y_stride), env)
        IN  /\ expr' = r.expr
            /\ index' = r.index
            /\ result' = r.result
    /\ UNCHANGED <<env, call_stack, calls, values>>

\* tests::max_pool2d:
\* "(compute reduce-max (access-windows (access (access-tensor t) 3) (shape 1 <kh> <kw>) <sh> <sw>))"
InterpretMaxPool2D ==
    /\ result = NotCalled
    /\ \E kh \in 1..MaxWindowDim, kw \in 1..MaxWindowDim, sh \in Strides, sw \in Strides :
        LET r == Run(Term("Compute", <<Leaf("ComputeType", "ReduceMax"),
                                       access_windows_term(<<1, kh, kw>>, sh, sw)>>), env)
        IN  /\ expr' = r.expr
            /\ index' = r.index
            /\ result' = r.result
    /\ UNCHANGED <<env, call_stack, calls, values>>

NextW == InterpretAccessWindows \/ InterpretMaxPool2D

SpecW == InitW /\ [][NextW]_vars

(***************************************************************************)
(* Cartesian products.  Two tensors of any shapes, accessed at any axes:   *)
(* the inner shapes may or may not agree.                                  *)
(***************************************************************************)
PairShapes == UNION {Shapes(n) : n \in 0..MaxPairRank}

PairAxes == 0..(MaxPairRank + 1)

\* env.insert("t0", ...); env.insert("t1", ...)
InitP ==
    /\ \E shape0 \in PairShapes, shape1 \in PairShapes :
           env = [t0 |-> test_tensor(shape0, 0), t1 |-> test_tensor(shape1, 1)]
    /\ expr = <<>>
    /\ index = 0
    /\ result = NotCalled
    /\ call_stack = <<>>
    /\ calls = <<>>
    /\ values = <<>>

\* tests::access_cartesian_product: "(access-cartesian-product
\*   (access (access-tensor t0) <k0>) (access (access-tensor t1) <k1>))"
InterpretAccessCartesianProduct ==
    /\ result = NotCalled
    /\ \E k0 \in PairAxes, k1 \in PairAxes :
        LET r == Run(Term("AccessCartesianProduct",
                          <<access_term("t0", k0), access_term("t1", k1)>>), env)
        IN  /\ expr' = r.expr
            /\ index' = r.index
            /\ result' = r.result
    /\ UNCHANGED <<env, call_stack, calls, values>>

NextP == InterpretAccessCartesianProduct

SpecP == InitP /\ [][NextP]_vars

(***************************************************************************)
(* Convolution.  The filters are (F, C, Kx, Ky), the activations           *)
(* (C', X, Y); the channel counts may differ and the kernel may be larger  *)
(* than the activations.                                                   *)
(***************************************************************************)
FilterShapes ==
    {<<f, c, kx, ky>> : f \in 1..MaxDim, c \in 1..MaxChannels, kx, ky \in 1..MaxWindowDim}

\* env.insert("filters", filters); env.insert("activations", activations)
InitC ==
    /\ \E filters \in FilterShapes, activations \in WindowShapes :
           env = [filters |-> test_tensor(filters, 0),
                  activations |-> test_tensor(activations, 1)]
    /\ expr = <<>>
    /\ index = 0
    /\ result = NotCalled
    /\ call_stack = <<>>
    /\ calls = <<>>
    /\ values = <<>>

\* the expression of interpret_conv2d
conv2d_term ==
    Term("Compute",
      <<Leaf("ComputeType", "DotProduct"),
        Term("AccessCartesianProduct",
          <<access_term("filters", 1),
            Term("AccessSqueeze",
              <<Term("AccessWindows",
                  <<access_term("activations", 3),
                    Term("SliceShape",
                      <<Term("ShapeOf", <<Leaf("Symbol", "filters")>>), Lit(1)>>),
                    Lit(1),
                    Lit(1)>>),
                Lit(0)>>)>>)>>)

\* interpret_conv2d
InterpretConv2D ==
    /\ result = NotCalled
    /\ LET r == Run(conv2d_term, env)
       IN  /\ expr' = r.expr
           /\ index' = r.index
           /\ result' = r.result
    /\ UNCHANGED <<env, call_stack, calls, values>>

NextC == InterpretConv2D

SpecC == InitC /\ [][NextC]_vars

(***************************************************************************)
(* Shapes.  The shape of the tensor sliced from any position, also past    *)
(* its end.                                                                *)
(***************************************************************************)
\* tests::slice_shape_*: "(slice-shape (shape-of t) <a>)"
InterpretSliceShape ==
    /\ result = NotCalled
    /\ \E a \in Usizes :
        LET r == Run(Term("SliceShape",
                          <<Term("ShapeOf", <<Leaf("Symbol", "t")>>), Lit(a)>>), env)
        IN  /\ expr' = r.expr
            /\ index' = r.index
            /\ result' = r.result
    /\ UNCHANGED <<env, call_stack, calls, values>>

NextS == InterpretSliceShape

SpecS == InitT /\ [][NextS]_vars

(***************************************************************************)
(* Accesses.  The access at the root, its result consumed by nothing; the  *)
(* axis ranges past the tensor's dimensions.                               *)
(***************************************************************************)
\* tests::access: "(access (access-tensor t) <dim>)"
InterpretAccess ==
    /\ result = NotCalled
    /\ \E dim \in Usizes :
        LET r == Run(access_term("t", dim), env)
        IN  /\ expr' = r.expr
            /\ index' = r.index
            /\ result' = r.result
    /\ UNCHANGED <<env, call_stack, calls, values>>

NextAccess == InterpretAccess

SpecAccess == InitT /\ [][NextAccess]_vars

(***************************************************************************)
(* Windows of any access.  The tensor has any number of dimensions, the    *)
(* access any axis and the filter shape any length: the assertions of      *)
(* AccessWindows are reached with operands that fail them.                 *)
(***************************************************************************)
AnyShapes == UNION {Shapes(n) : n \in 0..MaxRank}

\* "(shape <d>...)"
shape_term(shape) ==
    Term("Shape", [d \in 1..Len(shape) |-> Lit(shape[d])] \o <<>>)

\* tests::access_windows:
\* "(access-windows (access (access-tensor t) <k>) (shape <d>...) 1 1)"
InterpretAccessWindowsAny ==
    /\ result = NotCalled
    /\ \E k \in Usizes, filters_shape \in AnyShapes :
        LET r == Run(Term("AccessWindows",
                          <<access_term("t", k), shape_term(filters_shape),
                            Lit(1), Lit(1)>>), env)
        IN  /\ expr' = r.expr
            /\ index' = r.index
            /\ result' = r.result
    /\ UNCHANGED <<env, call_stack, calls, values>>

NextF == InterpretAccessWindowsAny

SpecF == InitA /\ [][NextF]_vars

(***************************************************************************)
(* Operands of the wrong kind.  Every implemented operator is built with   *)
(* operands of the kinds its arm matches, except one position that holds a *)
(* value of any kind, and the operator is enclosed in up to MaxDepth       *)
(* further operators that consume its result.                              *)
(***************************************************************************)
\* the Value variant each arm of interpret matches its operands against, in
\* operand order; Shape takes any number of Usize children, two here
operand_kinds ==
    [AccessSqueeze |-> <<"Access", "Usize">>,
     AccessPad |-> <<"Access", "PadType", "Usize", "Usize", "Usize">>,
     Compute |-> <<"ComputeType", "Access">>,
     AccessCartesianProduct |-> <<"Access", "Access">>,
     Access |-> <<"Access", "Usize">>,
     AccessWindows |-> <<"Access", "Shape", "Usize", "Usize">>,
     Shape |-> <<"Usize", "Usize">>,
     SliceShape |-> <<"Shape", "Usize">>,
     ShapeOf |-> <<"Tensor">>,
     AccessTensor |-> <<"Tensor">>]

\* the variants of Value
Kinds == {"Tensor", "Access", "Usize", "Shape", "ComputeType", "PadType"}

\* an expression that evaluates to a value of the given kind
kind_term(kind) ==
    CASE kind = "Tensor" -> Leaf("Symbol", "t")
      [] kind = "Access" -> Term("AccessTensor", <<Leaf("Symbol", "t")>>)
      [] kind = "Usize" -> Lit(0)
      [] kind = "Shape" -> Term("ShapeOf", <<Leaf("Symbol", "t")>>)
      [] kind = "ComputeType" -> Leaf("ComputeType", "ReLU")
      [] kind = "PadType" -> Leaf("PadType", "ZeroPadding")

\* an operator that consumes the term's result: "(slice-shape <term> 0)" for
\* the operators that return a Shape, "(compute relu <term>)" for the others
enclose(term) ==
    IF term.op \in {"Shape", "SliceShape", "ShapeOf"}
    THEN Term("SliceShape", <<term, Lit(0)>>)
    ELSE Term("Compute", <<Leaf("ComputeType", "ReLU"), term>>)

RECURSIVE enclose_times(_, _)
enclose_times(term, depth) ==
    IF depth = 0 THEN term ELSE enclose_times(enclose(term), depth - 1)

\* interpret called on an operator whose operand at one position is of any kind
InterpretMismatched ==
    /\ result = NotCalled
    /\ \E op \in DOMAIN operand_kinds, kind \in Kinds, depth \in 0..MaxDepth :
        \E position \in 1..Len(operand_kinds[op]) :
        LET args == [q \in 1..Len(operand_kinds[op]) |->
                        kind_term(IF q = position THEN kind
                                  ELSE operand_kinds[op][q])] \o <<>>
            r == Run(enclose_times(Term(op, args), depth), env)
        IN  /\ expr' = r.expr
            /\ index' = r.index
            /\ result' = r.result
    /\ UNCHANGED <<env, call_stack, calls, values>>

NextK == InterpretMismatched

SpecK == InitA /\ [][NextK]_vars

(***************************************************************************)
(* Reserved operators.  A reserved operator stands at one operand position *)
(* of an implemented operator, possibly after an operand of the wrong      *)
(* kind, or in the expression at a node the interpreted index does not     *)
(* reach.                                                                  *)
(***************************************************************************)
\* a kind other than the given one
other_kind(kind) == IF kind = "Tensor" THEN "Usize" ELSE "Tensor"

\* interpret called on an operator one of whose operands is a reserved
\* operator; the operand at position wrong, if another, is of the wrong kind
InterpretReserved ==
    /\ result = NotCalled
    /\ \E reserved \in Reserved, op \in DOMAIN operand_kinds :
        \E position \in 1..Len(operand_kinds[op]), wrong \in 1..Len(operand_kinds[op]) :
        LET args == [q \in 1..Len(operand_kinds[op]) |->
                        IF q = position THEN Term(reserved, <<Leaf("Symbol", "t")>>)
                        ELSE IF q = wrong THEN kind_term(other_kind(operand_kinds[op][q]))
                        ELSE kind_term(operand_kinds[op][q])] \o <<>>
            r == Run(Term(op, args), env)
        IN  /\ expr' = r.expr
            /\ index' = r.index
            /\ result' = r.result
    /\ UNCHANGED <<env, call_stack, calls, values>>

\* interpret called on an expression whose last node is a reserved operator
\* over the access before it: at the access, or at the reserved operator
InterpretBesideReserved ==
    /\ result = NotCalled
    /\ \E reserved \in Reserved, k \in Usizes, at_reserved \in BOOLEAN :
        LET access == from_str(access_term("t", k))
        IN  /\ expr' = Append(access, Node(reserved, <<Len(access) - 1>>, 0, ""))
            /\ index' = IF at_reserved THEN Len(access) ELSE Len(access) - 1
            /\ result' = interpret(expr', index', env)
    /\ UNCHANGED <<env, call_stack, calls, values>>

NextR == InterpretReserved \/ InterpretBesideReserved

SpecR == InitA /\ [][NextR]_vars

(***************************************************************************)
(* Calls.  The caller builds an expression, then calls interpret on it,    *)
(* any number of times: the expression and the environment are lent to the *)
(* call and are the caller's again when it returns or aborts.              *)
(***************************************************************************)
\* a call that keeps the tensor it computed in the environment
call_in_place(e, i, environment) ==
    [expr |-> e,
     env |-> IF interpret(e, i, environment).kind = "Access"
             THEN [symbol \in DOMAIN environment |->
                      interpret(e, i, environment).tensor]
             ELSE environment,
     result |-> interpret(e, i, environment)]

\* interpret(expr: &RecExpr<Language>, index, env: &Environment) -> Value:
\* the expression and the environment after the call, and its outcome
call(e, i, environment) ==
    [expr |-> e, env |-> environment, result |-> interpret(e, i, environment)]

\* RecExpr::from_str of an access-squeeze or a compute expression
BuildExpression ==
    /\ expr = <<>>
    /\ \E k \in Usizes :
        \E term \in {Term("AccessSqueeze", <<access_term("t", k), Lit(axis)>>) :
                         axis \in Usizes}
                    \cup {Term("Compute", <<Leaf("ComputeType", compute_type),
                                            access_term("t", k)>>) :
                             compute_type \in ComputeTypes} :
            /\ expr' = from_str(term)
            /\ index' = Len(from_str(term)) - 1
    /\ UNCHANGED <<env, result, call_stack, calls, values>>

\* the first call on the expression
Interpret ==
    /\ expr # <<>>
    /\ result = NotCalled
    /\ expr' = call(expr, index, env).expr
    /\ env' = call(expr, index, env).env
    /\ result' = call(expr, index, env).result
    /\ UNCHANGED <<index, call_stack, calls, values>>

\* a further call on the same expression, index and environment
InterpretAgain ==
    /\ expr # <<>>
    /\ result # NotCalled
    /\ expr' = call(expr, index, env).expr
    /\ env' = call(expr, index, env).env
    /\ result' = call(expr, index, env).result
    /\ UNCHANGED <<index, call_stack, calls, values>>

NextI == BuildExpression \/ Interpret \/ InterpretAgain

SpecI == InitT /\ [][NextI]_vars

(***************************************************************************)
(* Windows along a row.  A tensor of one channel and one row of up to      *)
(* MaxLength entries, filters and strides of every length up to MaxLength: *)
(* the last window ends at, or before, the end of the row.                 *)
(***************************************************************************)
\* env.insert("t", ...): a 1 x 1 x n tensor
InitL ==
    /\ \E n \in 1..MaxLength, seed \in Seeds :
           env = [t |-> test_tensor(<<1, 1, n>>, seed)]
    /\ expr = <<>>
    /\ index = 0
    /\ result = NotCalled
    /\ call_stack = <<>>
    /\ calls = <<>>
    /\ values = <<>>

\* tests::access_windows:
\* "(access-windows (access (access-tensor t) 3) (shape 1 1 <f>) 1 <s>)"
InterpretAccessWindowsRow ==
    /\ result = NotCalled
    /\ \E f \in 1..MaxLength, y_stride \in 1..MaxLength :
        LET r == Run(access_windows_term(<<1, 1, f>>, 1, y_stride), env)
        IN  /\ expr' = r.expr
            /\ index' = r.index
            /\ result' = r.result
    /\ UNCHANGED <<env, call_stack, calls, values>>

NextL == InterpretAccessWindowsRow

SpecL == InitL /\ [][NextL]_vars

(***************************************************************************)
(* Order of the operands.  An operator is given an operand whose own       *)
(* evaluation aborts (a symbol the environment does not hold, a reserved   *)
(* operator), possibly after an operand of the wrong kind.                 *)
(***************************************************************************)
\* the operators with at least two operands of which the order is observed
Ordered ==
    {"Compute", "AccessSqueeze", "AccessPad", "Access", "AccessWindows",
     "AccessCartesianProduct", "SliceShape"}

\* expressions whose evaluation aborts: "u" is not in the environment,
\* move-axis is reserved
aborting_terms ==
    {Leaf("Symbol", "u"), Term("MoveAxis", <<Leaf("Symbol", "t"), Lit(0), Lit(0)>>)}

\* interpret called on an operator whose operand at position aborts; the
\* operand at position wrong, if it comes earlier, is of the wrong kind
InterpretOrdered ==
    /\ result = NotCalled
    /\ \E op \in Ordered, aborting \in aborting_terms :
        \E position \in 1..Len(operand_kinds[op]) : \E wrong \in 1..position :
        LET args == [q \in 1..Len(operand_kinds[op]) |->
                        IF q = position THEN aborting
                        ELSE IF q = wrong THEN kind_term(other_kind(operand_kinds[op][q]))
                        ELSE kind_term(operand_kinds[op][q])] \o <<>>
            r == Run(Term(op, args), env)
        IN  /\ expr' = r.expr
            /\ index' = r.index
            /\ result' = r.result
    /\ UNCHANGED <<env, call_stack, calls, values>>

NextO == InterpretOrdered

SpecO == InitA /\ [][NextO]_vars
(***************************************************************************)
(* Properties.  Each is stated on the call a state records: the root node  *)
(* of expr, the values of its operands (the interpretation of its child    *)
(* positions) and result.  The expected elements are written index by      *)
(* index on the operand's tensor.                                          *)
(***************************************************************************)
Called == result # NotCalled

Root == expr[index + 1]

\* the value of the root's i-th operand
Operand(i) == interpret(expr, Root.ch[i], env)

\* the root is (compute <compute_type> <access>) and its operand is an access
IsCompute(compute_type) ==
    /\ Called
    /\ Root.op = "Compute"
    /\ expr[Root.ch[1] + 1].s = compute_type
    /\ Operand(2).kind = "Access"

\* the elements of the block of t below the outer index o, in row-major order
Block(t, o) ==
    LET inner == Drop(t.shape, Len(o))
    IN  [q \in 1..Prod(inner) |-> At(t, o \o Unravel(q - 1, inner))]

SeqToSet(s) == {s[i] : i \in 1..Len(s)}

\* C5: for every k in [0, ndim], Compute(ReduceSum, Access(t, k)) returns an
\* Access with access_axis k and shape shape[..k] whose element at each outer
\* index is the sum of the elements below it; for k = ndim it is t itself.
C5_ReduceSum ==
    (IsCompute("ReduceSum") /\ Operand(2).access_axis <= ndim(Operand(2).tensor))
    => LET t == Operand(2).tensor
           k == Operand(2).access_axis
       IN  /\ result.kind = "Access"
           /\ result.access_axis = k
           /\ result.tensor.shape = Take(t.shape, k)
           /\ Len(result.tensor.data) = Prod(Take(t.shape, k))
           /\ \A o \in Indices(Take(t.shape, k)) :
                  At(result.tensor, o) = SumSeq(Block(t, o))
           /\ (k = ndim(t) => result.tensor = t)

\* a ReduceSum that sums several elements into each of several outputs
C5_Witness ==
    /\ IsCompute("ReduceSum")
    /\ Operand(2).access_axis = 1
    /\ Operand(2).tensor.shape = <<2, 2, 2>>
    /\ result.kind = "Access"
    /\ result.tensor.shape = <<2>>

\* C6: for every k in [0, ndim], Compute(ReduceMax, Access(t, k)) returns an
\* Access with access_axis k and shape shape[..k] whose element at each outer
\* index is the maximum of the elements below it (one of them, and at least
\* each of them); for k = ndim it is t itself.
C6_ReduceMax ==
    (IsCompute("ReduceMax") /\ Operand(2).access_axis <= ndim(Operand(2).tensor))
    => LET t == Operand(2).tensor
           k == Operand(2).access_axis
       IN  /\ result.kind = "Access"
           /\ result.access_axis = k
           /\ result.tensor.shape = Take(t.shape, k)
           /\ Len(result.tensor.data) = Prod(Take(t.shape, k))
           /\ \A o \in Indices(Take(t.shape, k)) :
                  /\ At(result.tensor, o) \in SeqToSet(Block(t, o))
                  /\ \A v \in SeqToSet(Block(t, o)) : v <= At(result.tensor, o)
           /\ \A v \in SeqToSet(result.tensor.data) :
                  \E w \in SeqToSet(t.data) : v <= w
           /\ (k = ndim(t) => result.tensor = t)

\* a ReduceMax over blocks of several elements, one of them all negative
C6_Witness ==
    /\ IsCompute("ReduceMax")
    /\ Operand(2).access_axis = 1
    /\ Operand(2).tensor.shape = <<2, 2, 2>>
    /\ result.kind = "Access"
    /\ \E v \in SeqToSet(result.tensor.data) : v < 0
RECURSIVE ProdSeq(_)
\* the product of a sequence of elements
ProdSeq(s) == IF s = <<>> THEN 1 ELSE Head(s) * ProdSeq(Tail(s))

\* the elements of t along dimension Len(o), at outer index o and remaining
\* inner index r
Along(t, o, r) ==
    [j \in 1..t.shape[Len(o) + 1] |-> At(t, o \o <<j - 1>> \o r)]

\* C8: with access_axis k < ndim, Compute(ElementwiseAdd, a) and
\* Compute(ElementwiseMul, a) return an Access with access_axis k and shape
\* O ++ I[1..] whose element at each remaining index is the sum (the product)
\* of the input's elements over all indices of dimension k.
C8_Elementwise ==
    \A compute_type \in {"ElementwiseAdd", "ElementwiseMul"} :
        (IsCompute(compute_type) /\ Operand(2).access_axis < ndim(Operand(2).tensor))
        => LET t == Operand(2).tensor
               k == Operand(2).access_axis
           IN  /\ result.kind = "Access"
               /\ result.access_axis = k
               /\ result.tensor.shape = RemoveAt(t.shape, k)
               /\ Len(result.tensor.data) = Prod(RemoveAt(t.shape, k))
               /\ \A o \in Indices(Take(t.shape, k)) :
                      \A r \in Indices(Drop(t.shape, k + 1)) :
                          At(result.tensor, o \o r) =
                              IF compute_type = "ElementwiseAdd"
                              THEN SumSeq(Along(t, o, r))
                              ELSE ProdSeq(Along(t, o, r))

\* an ElementwiseMul over a middle dimension of two entries
C8_Witness ==
    /\ IsCompute("ElementwiseMul")
    /\ Operand(2).access_axis = 1
    /\ Operand(2).tensor.shape = <<2, 2, 2>>
    /\ result.kind = "Access"
    /\ result.tensor.shape = <<2, 2>>
    /\ \E v \in SeqToSet(result.tensor.data) : v # 0

\* C4: with access_axis k < ndim, Compute(DotProduct, a) returns an Access
\* with shape O = shape[..k] and access_axis |O| whose element at each outer
\* index is: the I[0] rows of the inner block, each of prod(I[1..]) elements,
\* multiplied together elementwise, and the resulting vector summed (a single
\* inner dimension gives rows of one element).
C4_DotProduct ==
    (IsCompute("DotProduct") /\ Operand(2).access_axis < ndim(Operand(2).tensor))
    => LET t == Operand(2).tensor
           k == Operand(2).access_axis
           rest == Drop(t.shape, k + 1)
       IN  /\ result.kind = "Access"
           /\ result.access_axis = k
           /\ result.tensor.shape = Take(t.shape, k)
           /\ Len(result.tensor.data) = Prod(Take(t.shape, k))
           /\ \A o \in Indices(Take(t.shape, k)) :
                  At(result.tensor, o) =
                      SumSeq([q \in 1..Prod(rest) |->
                                 ProdSeq(Along(t, o, Unravel(q - 1, rest)))])

\* a DotProduct of two rows of several elements each, at several outer indices
C4_Witness ==
    /\ IsCompute("DotProduct")
    /\ Operand(2).access_axis = 1
    /\ Operand(2).tensor.shape = <<2, 2, 2>>
    /\ result.kind = "Access"
    /\ result.tensor.shape = <<2>>

\* a DotProduct over a single inner dimension
C4_WitnessSingle ==
    /\ IsCompute("DotProduct")
    /\ Operand(2).access_axis = 1
    /\ Operand(2).tensor.shape = <<2, 2>>
    /\ result.kind = "Access"

\* the root is (access-squeeze <access> <axis>) on an access and a usize
IsAccessSqueeze ==
    /\ Called
    /\ Root.op = "AccessSqueeze"
    /\ Operand(1).kind = "Access"
    /\ Operand(2).kind = "Usize"

\* C9: AccessSqueeze(access, axis) on an axis of size 1 returns an Access
\* whose tensor has the shape with position axis removed and the elements in
\* the same order, and whose access_axis is one less iff axis < access_axis;
\* if shape[axis] is not 1 the call aborts.
C9_AccessSqueeze ==
    IsAccessSqueeze
    => LET t == Operand(1).tensor
           k == Operand(1).access_axis
           axis == Operand(2).u
       IN  /\ (axis < ndim(t) /\ t.shape[axis + 1] = 1)
                  => /\ result.kind = "Access"
                     /\ ndim(result.tensor) = ndim(t) - 1
                     /\ result.tensor.shape = RemoveAt(t.shape, axis)
                     /\ result.tensor.data = t.data
                     /\ (axis < k => result.access_axis = k - 1)
                     /\ (~(axis < k) => result.access_axis = k)
           /\ (axis < ndim(t) /\ t.shape[axis + 1] # 1) => IsPanic(result)

\* a squeeze of an axis below the access axis, of a tensor of several elements
C9_Witness ==
    /\ IsAccessSqueeze
    /\ Operand(1).tensor.shape = <<2, 1, 2>>
    /\ Operand(2).u = 1
    /\ Operand(1).access_axis = 2
    /\ result.kind = "Access"
    /\ result.access_axis = 1

\* a squeeze of the access axis itself, which stays
C9_WitnessKept ==
    /\ IsAccessSqueeze
    /\ Operand(1).tensor.shape = <<2, 1, 2>>
    /\ Operand(2).u = 1
    /\ Operand(1).access_axis = 1
    /\ result.kind = "Access"
    /\ result.access_axis = 1

\* the root is (access-pad <access> zero-padding <axis> <before> <after>)
IsAccessPad ==
    /\ Called
    /\ Root.op = "AccessPad"
    /\ Operand(1).kind = "Access"
    /\ Operand(2).kind = "PadType"
    /\ Operand(3).kind = "Usize"
    /\ Operand(4).kind = "Usize"
    /\ Operand(5).kind = "Usize"

\* C10: AccessPad(access, ZeroPadding, axis, b, a) with axis < ndim returns
\* an Access with the same access_axis whose shape[axis] is larger by b + a,
\* every other dimension unchanged; along axis, [0, b) and [b + orig, ...)
\* hold zero and [b, b + orig) is the input tensor.
C10_AccessPad ==
    (IsAccessPad /\ Operand(3).u < ndim(Operand(1).tensor))
    => LET t == Operand(1).tensor
           axis == Operand(3).u
           b == Operand(4).u
           a == Operand(5).u
           orig == t.shape[axis + 1]
       IN  /\ result.kind = "Access"
           /\ result.access_axis = Operand(1).access_axis
           /\ result.tensor.shape = [t.shape EXCEPT ![axis + 1] = orig + b + a]
           /\ Len(result.tensor.data) = Prod(result.tensor.shape)
           /\ \A idx \in Indices(result.tensor.shape) :
                  At(result.tensor, idx) =
                      IF b <= idx[axis + 1] /\ idx[axis + 1] < b + orig
                      THEN At(t, [idx EXCEPT ![axis + 1] = @ - b])
                      ELSE 0

\* a padding on both sides of a middle axis
C10_Witness ==
    /\ IsAccessPad
    /\ Operand(1).tensor.shape = <<2, 2, 2>>
    /\ Operand(1).access_axis = 2
    /\ Operand(3).u = 1
    /\ Operand(4).u = 1
    /\ Operand(5).u = 1
    /\ result.kind = "Access"
    /\ result.tensor.shape = <<2, 4, 2>>
\* the value of the i-th operand of the node at position n
OperandOf(n, i) == interpret(expr, expr[n + 1].ch[i], env)

\* the least n with n * b >= a, for a >= 0 and b >= 1
CeilDiv(a, b) == CHOOSE n \in 0..a : (n - 1) * b < a /\ a <= n * b

\* the node at position n is an access-windows of a 3-dimensional access at
\* axis 3 with a 3-dimensional filter shape that fits the tensor in every
\* dimension and strides of at least 1
WindowsFit(n) ==
    /\ expr[n + 1].op = "AccessWindows"
    /\ OperandOf(n, 1).kind = "Access"
    /\ OperandOf(n, 2).kind = "Shape"
    /\ OperandOf(n, 3).kind = "Usize"
    /\ OperandOf(n, 4).kind = "Usize"
    /\ ndim(OperandOf(n, 1).tensor) = 3
    /\ OperandOf(n, 1).access_axis = 3
    /\ Len(OperandOf(n, 2).shape) = 3
    /\ \A d \in 1..3 : /\ 1 <= OperandOf(n, 2).shape[d]
                        /\ OperandOf(n, 2).shape[d] <= OperandOf(n, 1).tensor.shape[d]
    /\ OperandOf(n, 3).u >= 1
    /\ OperandOf(n, 4).u >= 1

\* (Nc, Nx, Ny) for the access-windows node at position n
WindowCounts(n) ==
    LET T == OperandOf(n, 1).tensor.shape
        F == OperandOf(n, 2).shape
    IN  <<T[1] - F[1] + 1,
          CeilDiv(T[2] - F[2] + 1, OperandOf(n, 3).u),
          CeilDiv(T[3] - F[3] + 1, OperandOf(n, 4).u)>>

\* C2: AccessWindows on a 3-dimensional access (C, X, Y) at access_axis 3,
\* with a filter shape (Fc, Fx, Fy) that fits and strides of at least 1,
\* returns an Access at access_axis 3 of shape (Nc, Nx, Ny, Fc, Fx, Fy) with
\* Nc = C - Fc + 1, Nx = ceil((X - Fx + 1) / x_stride),
\* Ny = ceil((Y - Fy + 1) / y_stride), whose inner block at (ic, ix, iy) is
\* tensor[ic..ic+Fc, ix*x_stride..ix*x_stride+Fx, iy*y_stride..iy*y_stride+Fy].
C2_AccessWindows ==
    (Called /\ WindowsFit(index))
    => LET t == Operand(1).tensor
           F == Operand(2).shape
           N == WindowCounts(index)
       IN  /\ result.kind = "Access"
           /\ result.access_axis = 3
           /\ result.tensor.shape = N \o F
           /\ \A w \in Indices(N), f \in Indices(F) :
                  At(result.tensor, w \o f)
                  = At(t, <<w[1] + f[1], w[2] * Operand(3).u + f[2],
                            w[3] * Operand(4).u + f[3]>>)

\* AccessWindows has returned several windows along the rows, two rows apart,
\* the last of them starting where a row-by-row count would have no window
C2_Witness ==
    /\ Called
    /\ WindowsFit(index)
    /\ Operand(1).tensor.shape = <<2, 3, 3>>
    /\ Operand(2).shape = <<1, 1, 2>>
    /\ Operand(3).u = 2
    /\ Operand(4).u = 1
    /\ result.kind = "Access"
    /\ result.tensor.shape = <<2, 2, 2, 1, 1, 2>>

\* C7: MaxPool2D by composition: (compute reduce-max (access-windows
\* (access t 3) (shape 1 kh kw) sh sw)) on a tensor (C, X, Y) with X >= kh,
\* Y >= kw and strides of at least 1 returns an Access at access_axis 3 of
\* shape (C, ceil((X - kh + 1) / sh), ceil((Y - kw + 1) / sw)) whose element
\* [c, i, j] is the maximum of t[c, i*sh..i*sh+kh, j*sw..j*sw+kw].
C7_MaxPool2D ==
    (IsCompute("ReduceMax") /\ WindowsFit(Root.ch[2]) /\ OperandOf(Root.ch[2], 2).shape[1] = 1)
    => LET w == Root.ch[2]
           t == OperandOf(w, 1).tensor
           kh == OperandOf(w, 2).shape[2]
           kw == OperandOf(w, 2).shape[3]
           sh == OperandOf(w, 3).u
           sw == OperandOf(w, 4).u
           N == <<t.shape[1], CeilDiv(t.shape[2] - kh + 1, sh),
                  CeilDiv(t.shape[3] - kw + 1, sw)>>
           pooled(o) == {At(t, <<o[1], o[2] * sh + i, o[3] * sw + j>>) :
                            i \in 0..(kh - 1), j \in 0..(kw - 1)}
       IN  /\ result.kind = "Access"
           /\ result.access_axis = 3
           /\ result.tensor.shape = N
           /\ \A o \in Indices(N) :
                  /\ At(result.tensor, o) \in pooled(o)
                  /\ \A v \in pooled(o) : v <= At(result.tensor, o)

\* a pooling with windows of several elements, two columns apart, has returned
C7_Witness ==
    /\ IsCompute("ReduceMax")
    /\ WindowsFit(Root.ch[2])
    /\ OperandOf(Root.ch[2], 1).tensor.shape = <<2, 3, 3>>
    /\ OperandOf(Root.ch[2], 2).shape = <<1, 2, 1>>
    /\ OperandOf(Root.ch[2], 3).u = 1
    /\ OperandOf(Root.ch[2], 4).u = 2
    /\ result.kind = "Access"
    /\ result.tensor.shape = <<2, 2, 2>>
\* the root is an access-cartesian-product of two accesses
IsAccessCartesianProduct ==
    /\ Called
    /\ Root.op = "AccessCartesianProduct"
    /\ Operand(1).kind = "Access"
    /\ Operand(2).kind = "Access"

\* C3: AccessCartesianProduct(a0, a1), a0 of shape O0 ++ I accessed at |O0|
\* and a1 of shape O1 ++ I accessed at |O1|, returns an Access of shape
\* O0 ++ O1 ++ [2] ++ I at access_axis |O0| + |O1|; at every outer index
\* (o0, o1) position 0 of the pair dimension holds a0.tensor[o0] and position
\* 1 holds a1.tensor[o1], the index into O0 outermost.
C3_AccessCartesianProduct ==
    (/\ IsAccessCartesianProduct
     /\ Operand(1).access_axis <= ndim(Operand(1).tensor)
     /\ Operand(2).access_axis <= ndim(Operand(2).tensor)
     /\ Drop(Operand(1).tensor.shape, Operand(1).access_axis)
        = Drop(Operand(2).tensor.shape, Operand(2).access_axis))
    => LET a0 == Operand(1)
           a1 == Operand(2)
           O0 == Take(a0.tensor.shape, a0.access_axis)
           O1 == Take(a1.tensor.shape, a1.access_axis)
           I == Drop(a0.tensor.shape, a0.access_axis)
       IN  /\ result.kind = "Access"
           /\ result.access_axis = Len(O0) + Len(O1)
           /\ result.tensor.shape = O0 \o O1 \o <<2>> \o I
           /\ \A o0 \in Indices(O0), o1 \in Indices(O1), i \in Indices(I) :
                  /\ At(result.tensor, o0 \o o1 \o <<0>> \o i) = At(a0.tensor, o0 \o i)
                  /\ At(result.tensor, o0 \o o1 \o <<1>> \o i) = At(a1.tensor, o1 \o i)

\* a product of two rows of a0 with two rows of a1 has returned
C3_Witness ==
    /\ IsAccessCartesianProduct
    /\ Operand(1).tensor.shape = <<2, 2>>
    /\ Operand(1).access_axis = 1
    /\ Operand(2).tensor.shape = <<2, 2>>
    /\ Operand(2).access_axis = 1
    /\ result.kind = "Access"
    /\ result.tensor.shape = <<2, 2, 2, 2>>

\* the root is the convolution expression, interpreted
IsConv2D == Called /\ expr = from_str(conv2d_term)

\* C1: Conv2D by composition: for filters of shape (F, C, Kx, Ky) and
\* activations of shape (C, X, Y) with X >= Kx and Y >= Ky the expression
\* (compute dot-product (access-cartesian-product (access filters 1)
\* (access-squeeze (access-windows (access activations 3) (slice-shape
\* (shape-of filters) 1) 1 1) 0))) returns an Access of shape
\* (F, X - Kx + 1, Y - Ky + 1) whose element [f, x, y] is the sum over c, i, j
\* of filters[f, c, i, j] * activations[c, x + i, y + j].
C1_Conv2D ==
    (/\ IsConv2D
     /\ env.filters.shape[2] = env.activations.shape[1]
     /\ env.activations.shape[2] >= env.filters.shape[3]
     /\ env.activations.shape[3] >= env.filters.shape[4])
    => LET filters == env.filters
           activations == env.activations
           K == Tail(filters.shape)
           N == <<filters.shape[1],
                  activations.shape[2] - filters.shape[3] + 1,
                  activations.shape[3] - filters.shape[4] + 1>>
           term(o, q) ==
               LET u == Unravel(q - 1, K)
               IN  At(filters, <<o[1]>> \o u)
                   * At(activations, <<u[1], o[2] + u[2], o[3] + u[3]>>)
       IN  /\ result.kind = "Access"
           /\ result.tensor.shape = N
           /\ \A o \in Indices(N) :
                  At(result.tensor, o) = SumSeq([q \in 1..Prod(K) |-> term(o, q)])

\* a convolution of two filters over two channels, with a 2 x 2 kernel moved
\* over 3 x 3 activations, has returned
C1_Witness ==
    /\ IsConv2D
    /\ env.filters.shape = <<2, 2, 2, 2>>
    /\ env.activations.shape = <<2, 3, 3>>
    /\ result.kind = "Access"
    /\ result.tensor.shape = <<2, 2, 2>>
\* the root is a slice-shape of a shape at a usize
IsSliceShape ==
    /\ Called
    /\ Root.op = "SliceShape"
    /\ Operand(1).kind = "Shape"
    /\ Operand(2).kind = "Usize"

\* C11 as stated: SliceShape(shape, a) returns the suffix shape[a..] for every
\* a, and the empty shape, without aborting, for every a >= ndim(shape), also
\* for a > ndim(shape).
C11_Original ==
    IsSliceShape
    => /\ result.kind = "Shape"
       /\ result.shape = IF Operand(2).u >= Len(Operand(1).shape) THEN <<>>
                         ELSE Drop(Operand(1).shape, Operand(2).u)

\* C11 amended: SliceShape(shape, a) returns the suffix shape[a..] for every
\* a <= ndim(shape), the empty shape for a = ndim(shape); for a > ndim(shape)
\* the call aborts.
C11_SliceShape ==
    IsSliceShape
    => IF Operand(2).u <= Len(Operand(1).shape)
       THEN result = Shape(Drop(Operand(1).shape, Operand(2).u))
       ELSE IsPanic(result)

\* a shape of two dimensions has been sliced from position 3
C11_Witness ==
    /\ IsSliceShape
    /\ Len(Operand(1).shape) = 2
    /\ Operand(2).u = 3
    /\ IsPanic(result)
\* C12: every Access value that interpret returns satisfies
\* 0 <= access_axis <= ndim(tensor).
C12_AccessAxisInRange ==
    (Called /\ result.kind = "Access")
    => /\ 0 <= result.access_axis
       /\ result.access_axis <= ndim(result.tensor)

\* the root is an access of an access at a usize
IsAccess ==
    /\ Called
    /\ Root.op = "Access"
    /\ Operand(1).kind = "Access"
    /\ Operand(2).kind = "Usize"

\* C13: the axis range of Access(access, dim) is checked eagerly: when
\* dim > ndim(access.tensor) the call aborts at the Access node and returns no
\* Value, also when the Access node is the root.
C13_AccessChecked ==
    (IsAccess /\ Operand(2).u > ndim(Operand(1).tensor)) => IsPanic(result)
\* C14 as stated: when the inner shape is empty (access_axis = ndim), Compute
\* with ElementwiseAdd, ElementwiseMul or DotProduct returns an Access whose
\* tensor and access_axis equal those of the input access.
C14_Original ==
    \A compute_type \in {"ElementwiseAdd", "ElementwiseMul", "DotProduct"} :
        (IsCompute(compute_type) /\ Operand(2).access_axis = ndim(Operand(2).tensor))
        => /\ result.kind = "Access"
           /\ result.tensor = Operand(2).tensor
           /\ result.access_axis = Operand(2).access_axis

\* C14 amended: when the inner shape is empty (access_axis = ndim), Compute
\* with ElementwiseAdd, ElementwiseMul or DotProduct aborts the interpret
\* call: there is no first inner dimension to reduce over.
C14_DegenerateCompute ==
    \A compute_type \in {"ElementwiseAdd", "ElementwiseMul", "DotProduct"} :
        (IsCompute(compute_type) /\ Operand(2).access_axis = ndim(Operand(2).tensor))
        => IsPanic(result)

\* an ElementwiseAdd of a 2 x 2 tensor accessed at axis 2
C14_Witness ==
    /\ IsCompute("ElementwiseAdd")
    /\ Operand(2).tensor.shape = <<2, 2>>
    /\ Operand(2).access_axis = 2
    /\ IsPanic(result)
\* both operands of the product are accessed within their dimensions and
\* their inner shapes are equal
InnerShapesEqual ==
    /\ Operand(1).access_axis <= ndim(Operand(1).tensor)
    /\ Operand(2).access_axis <= ndim(Operand(2).tensor)
    /\ Drop(Operand(1).tensor.shape, Operand(1).access_axis)
       = Drop(Operand(2).tensor.shape, Operand(2).access_axis)

\* C15: inner-shape equality is the sole contract of AccessCartesianProduct:
\* the call aborts whenever the inner shapes a0.shape[a0.access_axis..] and
\* a1.shape[a1.access_axis..] differ, and whenever they are equal it returns
\* a value, also when the two access axes differ, the outer sizes taken from
\* each operand independently.
C15_InnerShapeContract ==
    IsAccessCartesianProduct
    => IF InnerShapesEqual
       THEN /\ result.kind = "Access"
            /\ Len(result.tensor.shape)
               = Operand(1).access_axis + Operand(2).access_axis + 1
                 + (ndim(Operand(1).tensor) - Operand(1).access_axis)
            /\ Take(result.tensor.shape, Operand(1).access_axis)
               = Take(Operand(1).tensor.shape, Operand(1).access_axis)
            /\ Take(Drop(result.tensor.shape, Operand(1).access_axis),
                    Operand(2).access_axis)
               = Take(Operand(2).tensor.shape, Operand(2).access_axis)
       ELSE IsPanic(result)

\* a product of operands accessed at different axes, their outer shapes
\* <<2, 2>> and <<>>, has returned
C15_Witness ==
    /\ IsAccessCartesianProduct
    /\ Operand(1).tensor.shape = <<2, 2>>
    /\ Operand(1).access_axis = 2
    /\ Operand(2).tensor.shape = <<>>
    /\ Operand(2).access_axis = 0
    /\ result.kind = "Access"
    /\ result.tensor.shape = <<2, 2, 2>>

\* a product of operands with different inner shapes has aborted
C15_WitnessAbort ==
    /\ IsAccessCartesianProduct
    /\ Operand(1).tensor.shape = <<2, 2>>
    /\ Operand(1).access_axis = 1
    /\ Operand(2).tensor.shape = <<2, 1>>
    /\ Operand(2).access_axis = 1
    /\ IsPanic(result)
\* the root is an access-windows of an access, a shape and two strides
IsAccessWindowsAny ==
    /\ Called
    /\ Root.op = "AccessWindows"
    /\ Operand(1).kind = "Access"
    /\ Operand(2).kind = "Shape"
    /\ Operand(3).kind = "Usize"
    /\ Operand(4).kind = "Usize"

\* the access is a 3-dimensional tensor at axis 3 and the filter shape has
\* 3 dimensions
WindowOperandsWellFormed ==
    /\ ndim(Operand(1).tensor) = 3
    /\ Operand(1).access_axis = 3
    /\ Len(Operand(2).shape) = 3

\* C16: AccessWindows aborts the call whenever the filter exceeds the tensor
\* along any dimension (C < Fc or X < Fx or Y < Fy), and whenever the access
\* is not a 3-dimensional tensor with access_axis 3 or the filter shape is
\* not 3-dimensional.
C16_WindowFit ==
    IsAccessWindowsAny
    => IF ~WindowOperandsWellFormed THEN IsPanic(result)
       ELSE (\E d \in 1..3 : Operand(1).tensor.shape[d] < Operand(2).shape[d])
            => IsPanic(result)

\* a 3-dimensional tensor accessed at axis 2 under a filter that fits
C16_Witness ==
    /\ IsAccessWindowsAny
    /\ Operand(1).tensor.shape = <<2, 2, 2>>
    /\ Operand(1).access_axis = 2
    /\ Operand(2).shape = <<1, 2, 2>>
    /\ IsPanic(result)

\* a well-formed access under a filter wider than the tensor
C16_WitnessOverflow ==
    /\ IsAccessWindowsAny
    /\ WindowOperandsWellFormed
    /\ Operand(1).tensor.shape = <<2, 1, 2>>
    /\ Operand(2).shape = <<2, 2, 2>>
    /\ IsPanic(result)
RECURSIVE Reach(_, _)
\* the nodes of e reachable from node i through operands
Reach(e, i) ==
    {i} \cup UNION {Reach(e, e[i + 1].ch[p]) : p \in 1..Len(e[i + 1].ch)}

\* the kind that operator op requires of its operand at position p
ExpectedKind(op, p) ==
    IF op = "Shape" THEN "Usize" ELSE operand_kinds[op][p]

\* node n is an implemented operator one of whose operands evaluates to a
\* value of another kind than the operator requires
Mismatched(n) ==
    /\ expr[n + 1].op \in DOMAIN operand_kinds
    /\ \E p \in 1..Len(expr[n + 1].ch) :
           /\ ~IsPanic(OperandOf(n, p))
           /\ OperandOf(n, p).kind # ExpectedKind(expr[n + 1].op, p)

\* C17: kind mismatch is fatal at any depth: if an operand of an implemented
\* operator, at any operand position and anywhere below the root, evaluates
\* to a Value variant other than the one the operator expects, the call
\* aborts and returns no Value.
C17_KindMismatchFatal ==
    (Called /\ \E n \in Reach(expr, index) : Mismatched(n)) => IsPanic(result)

\* a ShapeOf applied to an Access, two operators below the root
C17_Witness ==
    /\ Called
    /\ Root.op = "SliceShape"
    /\ \E n \in Reach(expr, index) :
           /\ n # index
           /\ n # Root.ch[1]
           /\ expr[n + 1].op = "ShapeOf"
           /\ OperandOf(n, 1).kind = "Access"
    /\ IsPanic(result)
\* operand p of node n ends the evaluation of n's operands: its own
\* evaluation aborts, or it is matched before the next operand is evaluated
\* and is of the wrong kind (AccessCartesianProduct and SliceShape evaluate
\* both operands before they match)
EndsOperands(e, n, p) ==
    LET v == interpret(e, e[n + 1].ch[p], env)
    IN  \/ IsPanic(v)
        \/ /\ e[n + 1].op \in DOMAIN operand_kinds
           /\ e[n + 1].op \notin {"AccessCartesianProduct", "SliceShape"}
           /\ v.kind # ExpectedKind(e[n + 1].op, p)

RECURSIVE Evaluated(_, _)
\* the nodes of e that the call interpret(e, n, env) evaluates: n itself and,
\* unless n is reserved, what its operands evaluate, in order, up to the
\* first operand that ends the evaluation
Evaluated(e, n) ==
    IF e[n + 1].op \in Reserved THEN {n}
    ELSE {n} \cup UNION {Evaluated(e, e[n + 1].ch[p]) :
                            p \in {q \in 1..Len(e[n + 1].ch) :
                                       \A o \in 1..(q - 1) : ~EndsOperands(e, n, o)}}

\* the reserved nodes of the expression
ReservedNodes == {n \in 0..(Len(expr) - 1) : expr[n + 1].op \in Reserved}

\* C18: a reserved operator aborts the call with the indication "not yet
\* implemented", distinct from the aborts of kind mismatches and failed
\* preconditions, exactly when its node is reached during evaluation; a
\* reserved node not reachable from the interpreted index causes no abort.
C18_ReservedAborts ==
    Called
    => /\ (result = Panic("Todo"))
          <=> (ReservedNodes \cap Evaluated(expr, index) # {})
       /\ (ReservedNodes \cap Reach(expr, index) = {})
          => (result = interpret(SubSeq(expr, 1, index + 1), index, env))

\* a reserved node beside the interpreted access, which returned
C18_Witness ==
    /\ Called
    /\ ReservedNodes # {}
    /\ ReservedNodes \cap Reach(expr, index) = {}
    /\ result.kind = "Access"

\* a reserved operand evaluated: the call aborted as not yet implemented
C18_WitnessReached ==
    /\ Called
    /\ Root.op = "AccessPad"
    /\ expr[Root.ch[5] + 1].op = "AccessPair"
    /\ result = Panic("Todo")

\* a reserved operand after an operand of the wrong kind: never evaluated
C18_WitnessNotReached ==
    /\ Called
    /\ Root.op = "AccessSqueeze"
    /\ expr[Root.ch[2] + 1].op = "MoveAxis"
    /\ result = Panic("KindMismatch")
C19_WitnessReturned ==
    /\ expr # <<>>
    /\ result.kind = "Access"
    /\ result.tensor # env.t
\* the starts s in {0, S, 2S, ...} of a window of F entries within N entries
FittingStarts(N, F, S) == {s \in 0..N : s % S = 0 /\ s + F <= N}

\* the strides of an access-windows at the root, per dimension: the channel
\* stride is 1
RootStrides == <<1, Operand(3).u, Operand(4).u>>

\* C20: for every tensor size N, filter size F with 1 <= F <= N and stride
\* S >= 1, the window count ((N - (F - 1)) + S - 1) / S that AccessWindows
\* computes is the number of starts s in {0, S, 2S, ...} with s + F <= N:
\* every emitted window start i * S satisfies i * S + F <= N, and no fitting
\* strided start is omitted.
C20_EdgeWindows ==
    (Called /\ WindowsFit(index))
    => /\ result.kind = "Access"
       /\ \A d \in 1..3 :
              LET N == Operand(1).tensor.shape[d]
                  F == Operand(2).shape[d]
                  S == RootStrides[d]
                  emitted == result.tensor.shape[d]
              IN  /\ num_windows(N, F, S) = Cardinality(FittingStarts(N, F, S))
                  /\ emitted = Cardinality(FittingStarts(N, F, S))
                  /\ \A i \in 0..(emitted - 1) : i * S + F <= N
                  /\ \A s \in FittingStarts(N, F, S) : s \div S < emitted

\* a row of 6 entries under a filter of 2 and a stride of 3: the starts 0
\* and 3, the second window ending one entry before the end
C20_Witness ==
    /\ Called
    /\ WindowsFit(index)
    /\ Operand(1).tensor.shape = <<1, 1, 6>>
    /\ Operand(2).shape = <<1, 1, 2>>
    /\ Operand(4).u = 3
    /\ result.kind = "Access"
    /\ result.tensor.shape = <<1, 1, 2, 1, 1, 2>>
\* at the root, operand w evaluates to a value of the wrong kind, a later
\* operand p aborts in its own evaluation, and no operand before p aborts or
\* is of the wrong kind except w
EarlierWrongLaterAborts(w, p) ==
    /\ Called
    /\ Root.op \in Ordered
    /\ w < p
    /\ p <= Len(Root.ch)
    /\ IsPanic(Operand(p))
    /\ \A q \in 1..(p - 1) :
           /\ ~IsPanic(Operand(q))
           /\ (Operand(q).kind # ExpectedKind(Root.op, q)) <=> (q = w)

\* C21 as stated: all operands of a node are evaluated, left to right, before
\* any is matched against its kind: when an earlier operand has the wrong
\* kind and a later operand's own evaluation aborts, the abort that surfaces
\* is the later operand's, for all of Compute, AccessSqueeze, AccessPad,
\* Access, AccessWindows, AccessCartesianProduct and SliceShape.
C21_Original ==
    \A w \in 1..5, p \in 1..5 :
        EarlierWrongLaterAborts(w, p) => result = Operand(p)

\* C21 amended: the operands are evaluated left to right; Compute,
\* AccessSqueeze, AccessPad, Access and AccessWindows match each operand
\* against its kind before they evaluate the next, so an earlier operand of
\* the wrong kind aborts the call with the kind mismatch and the later
\* operand is never evaluated; only AccessCartesianProduct and SliceShape
\* evaluate both operands before they match, and there the abort that
\* surfaces is the later operand's.
C21_OperandOrder ==
    \A w \in 1..5, p \in 1..5 :
        EarlierWrongLaterAborts(w, p)
        => IF Root.op \in {"AccessCartesianProduct", "SliceShape"}
           THEN result = Operand(p)
           ELSE /\ result = Panic("KindMismatch")
                /\ Root.ch[p] \notin Evaluated(expr, index)

\* a compute whose first operand is a tensor and whose second is a symbol
\* the environment does not hold has aborted with the kind mismatch
C21_Witness ==
    /\ EarlierWrongLaterAborts(1, 2)
    /\ Root.op = "Compute"
    /\ Operand(2) = Panic("MissingSymbol")
    /\ result = Panic("KindMismatch")

\* a cartesian product whose first operand is a tensor and whose second is
\* a reserved operator has aborted as not yet implemented
C21_WitnessPair ==
    /\ EarlierWrongLaterAborts(1, 2)
    /\ Root.op = "AccessCartesianProduct"
    /\ result = Panic("Todo")
(***************************************************************************)
(* Dot products.  The dot product of an access, and the sum of its         *)
(* elementwise product.                                                    *)
(***************************************************************************)
\* "(compute reduce-sum (compute elementwise-mul (access (access-tensor t) <k>)))"
reduce_sum_of_mul_term(k) ==
    Term("Compute", <<Leaf("ComputeType", "ReduceSum"),
                      Term("Compute", <<Leaf("ComputeType", "ElementwiseMul"),
                                        access_term("t", k)>>)>>)

\* tests::compute_dot_product_*: "(compute dot-product (access (access-tensor t) <k>))"
InterpretDotProduct ==
    /\ result = NotCalled
    /\ \E k \in Usizes :
        LET r == Run(Term("Compute", <<Leaf("ComputeType", "DotProduct"),
                                       access_term("t", k)>>), env)
        IN  /\ expr' = r.expr
            /\ index' = r.index
            /\ result' = r.result
    /\ UNCHANGED <<env, call_stack, calls, values>>

\* tests::compute_reduce_sum_* over tests::compute_elementwise_mul_*
InterpretReduceSumOfMul ==
    /\ result = NotCalled
    /\ \E k \in Usizes :
        LET r == Run(reduce_sum_of_mul_term(k), env)
        IN  /\ expr' = r.expr
            /\ index' = r.index
            /\ result' = r.result
    /\ UNCHANGED <<env, call_stack, calls, values>>

NextD == InterpretDotProduct \/ InterpretReduceSumOfMul

SpecD == InitT /\ [][NextD]_vars

\* C23: for every access a with access_axis < ndim, Compute(DotProduct, a)
\* returns the same tensor and the same access_axis as
\* Compute(ReduceSum, Compute(ElementwiseMul, a)).
C23_DotProductFactors ==
    (IsCompute("DotProduct") /\ Operand(2).access_axis < ndim(Operand(2).tensor))
    => LET factored == Run(reduce_sum_of_mul_term(Operand(2).access_axis), env).result
       IN  /\ result.kind = "Access"
           /\ factored.kind = "Access"
           /\ result.tensor = factored.tensor
           /\ result.access_axis = factored.access_axis

\* a dot product over the two inner dimensions of a 2 x 2 x 2 tensor, its
\* two sums not both zero
C23_Witness ==
    /\ IsCompute("DotProduct")
    /\ Operand(2).tensor.shape = <<2, 2, 2>>
    /\ Operand(2).access_axis = 1
    /\ result.kind = "Access"
    /\ result.tensor.shape = <<2>>
    /\ \E v \in SeqToSet(result.tensor.data) : v # 0

(***************************************************************************)
(* Access axes.  Every operator that returns an access, over the accesses  *)
(* of one tensor at any axis; the second tensor is the first without its   *)
(* leading dimension, so that a product pairs accesses at different axes.  *)
(* Each dimension is of size 1, which a squeeze removes, or of MaxDim.      *)
(***************************************************************************)
SqueezableShapes == UNION {[1..n -> {1, MaxDim}] : n \in 0..MaxRank}

\* env.insert("t", ...); env.insert("t1", ...)
InitB ==
    /\ \E shape \in SqueezableShapes :
           env = [t |-> test_tensor(shape, 0),
                  t1 |-> test_tensor(IF shape = <<>> THEN <<>> ELSE Tail(shape), 1)]
    /\ expr = <<>>
    /\ index = 0
    /\ result = NotCalled
    /\ call_stack = <<>>
    /\ calls = <<>>
    /\ values = <<>>

\* "(access-tensor t)"
InterpretAccessTensor ==
    /\ result = NotCalled
    /\ LET r == Run(Term("AccessTensor", <<Leaf("Symbol", "t")>>), env)
       IN  /\ expr' = r.expr
           /\ index' = r.index
           /\ result' = r.result
    /\ UNCHANGED <<env, call_stack, calls, values>>

\* tests::access_cartesian_product: "(access-cartesian-product
\*   (access (access-tensor t) <k0>) (access (access-tensor t1) <k1>))"
InterpretProduct ==
    /\ result = NotCalled
    /\ \E k0 \in Usizes, k1 \in Usizes :
        LET r == Run(Term("AccessCartesianProduct",
                          <<access_term("t", k0), access_term("t1", k1)>>), env)
        IN  /\ expr' = r.expr
            /\ index' = r.index
            /\ result' = r.result
    /\ UNCHANGED <<env, call_stack, calls, values>>

\* tests::access_pad, the same padding on both sides:
\* "(access-pad (access (access-tensor t) <k>) zero-padding <axis> <pad> <pad>)"
InterpretPad ==
    /\ result = NotCalled
    /\ \E k \in Usizes, axis \in Usizes, pad \in 0..MaxPad :
        LET r == Run(Term("AccessPad", <<access_term("t", k), Leaf("PadType", "ZeroPadding"),
                                         Lit(axis), Lit(pad), Lit(pad)>>), env)
        IN  /\ expr' = r.expr
            /\ index' = r.index
            /\ result' = r.result
    /\ UNCHANGED <<env, call_stack, calls, values>>

\* tests::access_windows:
\* "(access-windows (access (access-tensor t) 3) (shape <c> <x> <y>) 1 1)"
InterpretWindows ==
    /\ result = NotCalled
    /\ \E filters_shape \in Shapes(3) :
        LET r == Run(access_windows_term(filters_shape, 1, 1), env)
        IN  /\ expr' = r.expr
            /\ index' = r.index
            /\ result' = r.result
    /\ UNCHANGED <<env, call_stack, calls, values>>

NextB ==
    \/ InterpretAccessTensor
    \/ InterpretAccessSqueeze
    \/ InterpretPad
    \/ InterpretCompute
    \/ InterpretProduct
    \/ InterpretWindows

SpecB == InitB /\ [][NextB]_vars

\* an access whose access_axis is within its tensor's dimensions
AxisBounded(v) == v.access_axis <= ndim(v.tensor)

\* the operators of the claim
BoundPreserving ==
    {"AccessTensor", "AccessSqueeze", "AccessPad", "Compute",
     "AccessCartesianProduct", "AccessWindows"}

\* the operator at the root has returned, each of its Access operands bounded
ReturnedFromBounded ==
    /\ Called
    /\ Root.op \in BoundPreserving
    /\ ~IsPanic(result)
    /\ \A i \in 1..Len(Root.ch) : Operand(i).kind = "Access" => AxisBounded(Operand(i))

\* C24: if each Access operand given to AccessTensor, AccessSqueeze,
\* AccessPad, any Compute type, AccessCartesianProduct or AccessWindows has
\* access_axis <= ndim and the operator returns, the returned Access has
\* access_axis <= ndim; AccessSqueeze with axis >= access_axis does not leave
\* access_axis above the reduced ndim, and ReduceSum, ReduceMax and DotProduct
\* return access_axis equal to the result's ndim.
C24_AxisBoundPreserved ==
    ReturnedFromBounded
    => /\ result.kind = "Access"
       /\ AxisBounded(result)
       /\ (Root.op = "Compute"
            /\ expr[Root.ch[1] + 1].s \in {"ReduceSum", "ReduceMax", "DotProduct"})
           => result.access_axis = ndim(result.tensor)

\* a squeeze of the last axis, the access axis being that axis: it stays
C24_Witness ==
    /\ ReturnedFromBounded
    /\ Root.op = "AccessSqueeze"
    /\ Operand(1).tensor.shape = <<2, 1>>
    /\ Operand(1).access_axis = 1
    /\ Operand(2).u = 1
    /\ result.access_axis = 1
    /\ ndim(result.tensor) = 1

\* a squeeze below an access axis that equals ndim: the axis follows
C24_WitnessFull ==
    /\ ReturnedFromBounded
    /\ Root.op = "AccessSqueeze"
    /\ Operand(1).tensor.shape = <<1, 2>>
    /\ Operand(1).access_axis = 2
    /\ result.access_axis = 1
    /\ ndim(result.tensor) = 1

\* a product of accesses at different axes
C24_WitnessProduct ==
    /\ ReturnedFromBounded
    /\ Root.op = "AccessCartesianProduct"
    /\ Operand(1).access_axis = 2
    /\ Operand(2).access_axis = 1
    /\ result.access_axis = 3

\* a reduction
C24_WitnessReduce ==
    /\ ReturnedFromBounded
    /\ IsCompute("ReduceMax")
    /\ Operand(2).access_axis = 1
    /\ ndim(Operand(2).tensor) = 3
    /\ result.access_axis = 1

\* windows
C24_WitnessWindows ==
    /\ ReturnedFromBounded
    /\ Root.op = "AccessWindows"
    /\ result.access_axis = 3
    /\ ndim(result.tensor) = 6

(***************************************************************************)
(* The recursion.  The caller passes any expression whose nodes refer to   *)
(* earlier nodes, shared or not, and any index in it; the call is followed *)
(* one recursive call and one return at a time.                            *)
(***************************************************************************)
\* the nodes that may stand at position p: leaves, and operators over
\* operands at earlier positions; move-axis is reserved
NodesAt(p) ==
    {Node("Usize", <<>>, 0, ""), Node("Symbol", <<>>, 0, "t")}
    \cup {Node(op, <<c>>, 0, "") : op \in {"AccessTensor", "MoveAxis"}, c \in 0..(p - 1)}
    \cup {Node(op, <<c1, c2>>, 0, "") :
             op \in {"Access", "AccessCartesianProduct"},
             c1 \in 0..(p - 1), c2 \in 0..(p - 1)}

RECURSIVE Dags(_)
\* the expressions of n nodes
Dags(n) ==
    IF n = 0 THEN {<<>>}
    ELSE {Append(e, node) : e \in Dags(n - 1), node \in NodesAt(n - 1)}

\* env.insert("t", ...): a vector
InitZ ==
    /\ \E shape \in Shapes(1) : env = [t |-> test_tensor(shape, 0)]
    /\ expr = <<>>
    /\ index = 0
    /\ result = NotCalled
    /\ call_stack = <<>>
    /\ calls = <<>>
    /\ values = <<>>

\* a reference to a node evaluates it only the first time
evaluates_once(counts, child) == counts[child + 1] = 0

\* interpret(expr, id as usize, env) at each operand: a call per reference,
\* whatever was evaluated before
evaluates(counts, child) == TRUE

\* interpret(&expr, index, &env): the outermost call begins
CallInterpret ==
    /\ expr = <<>>
    /\ result = NotCalled
    /\ \E n \in 1..MaxNodes : \E e \in Dags(n) : \E root \in 0..(n - 1) :
           /\ expr' = e
           /\ index' = root
           /\ call_stack' = <<[node |-> root, next |-> 1]>>
           /\ calls' = [i \in 1..n |-> IF i = root + 1 THEN 1 ELSE 0] \o <<>>
           /\ values' = [i \in 1..n |-> interpret(e, i - 1, env)] \o <<>>
    /\ UNCHANGED <<env, result>>

\* the innermost call evaluates its next operand: a recursive call
Descend ==
    /\ call_stack # <<>>
    /\ LET frame == call_stack[Len(call_stack)]
           node == expr[frame.node + 1]
       IN  /\ node.op \notin Reserved
           /\ frame.next <= Len(node.ch)
           /\ IF evaluates(calls, node.ch[frame.next])
              THEN /\ call_stack' = Append(call_stack,
                                          [node |-> node.ch[frame.next], next |-> 1])
                   /\ calls' = [calls EXCEPT ![node.ch[frame.next] + 1] = @ + 1]
              ELSE /\ call_stack' = [call_stack EXCEPT ![Len(call_stack)].next = @ + 1]
                   /\ calls' = calls
    /\ UNCHANGED <<env, expr, index, result, values>>

\* the innermost call has evaluated its operands, or is on a reserved
\* operator
Over(frame) ==
    \/ expr[frame.node + 1].op \in Reserved
    \/ frame.next > Len(expr[frame.node + 1].ch)

\* the operator of the call given by the frame
frame_op(frame) == expr[frame.node + 1].op

\* the value of the operand the call given by the frame evaluates next
frame_operand(frame) == values[expr[frame.node + 1].ch[frame.next] + 1]

\* the value ends the evaluation of the frame's operands: it is an abort, or
\* it is matched before the next operand is evaluated and is of the wrong
\* kind (AccessCartesianProduct and SliceShape evaluate both operands
\* before they match)
ends_operands(frame) ==
    \/ IsPanic(frame_operand(frame))
    \/ /\ frame_op(frame) \in DOMAIN operand_kinds
       /\ frame_op(frame) \notin {"AccessCartesianProduct", "SliceShape"}
       /\ frame_operand(frame).kind
          # (IF frame_op(frame) = "Shape" THEN "Usize"
             ELSE operand_kinds[frame_op(frame)][frame.next])

\* the outermost call is over: its value, or its abort, is the outcome
Complete ==
    /\ Len(call_stack) = 1
    /\ Over(call_stack[1])
    /\ result' = values[call_stack[1].node + 1]
    /\ call_stack' = <<>>
    /\ UNCHANGED <<env, expr, index, calls, values>>

\* an inner call is over and its value passes the match of the call before
\* it, which goes on with its next operand
Return ==
    /\ Len(call_stack) > 1
    /\ Over(call_stack[Len(call_stack)])
    /\ ~ends_operands(call_stack[Len(call_stack) - 1])
    /\ call_stack' = [SubSeq(call_stack, 1, Len(call_stack) - 1)
                        EXCEPT ![Len(call_stack) - 1].next = @ + 1]
    /\ UNCHANGED <<env, expr, index, result, calls, values>>

\* an inner call is over and it aborts, or its value fails the match of the
\* call before it: the panic ends the outermost call
Unwind ==
    /\ Len(call_stack) > 1
    /\ Over(call_stack[Len(call_stack)])
    /\ ends_operands(call_stack[Len(call_stack) - 1])
    /\ result' = IF IsPanic(frame_operand(call_stack[Len(call_stack) - 1]))
                 THEN frame_operand(call_stack[Len(call_stack) - 1])
                 ELSE Panic("KindMismatch")
    /\ call_stack' = <<>>
    /\ UNCHANGED <<env, expr, index, calls, values>>

NextZ == CallInterpret \/ Descend \/ Return \/ Unwind \/ Complete

\* a call in progress goes on: it runs on one execution context
SpecZ ==
    /\ InitZ
    /\ [][NextZ]_vars
    /\ WF_vars(Descend)
    /\ WF_vars(Return)
    /\ WF_vars(Unwind)
    /\ WF_vars(Complete)

RECURSIVE Paths(_, _, _)
RECURSIVE PathsThrough(_, _, _)
\* the number of ways from node root down to node n through operands
Paths(e, root, n) ==
    IF root = n THEN 1 ELSE PathsThrough(e, e[root + 1].ch, n)

\* the ways down to n through each of the operands ch
PathsThrough(e, ch, n) ==
    IF ch = <<>> THEN 0
    ELSE Paths(e, Head(ch), n) + PathsThrough(e, Tail(ch), n)

\* C22: for every expression whose nodes refer to strictly smaller positions
\* and every index in it, the call of interpret runs to completion (it
\* returns a Value or aborts); the recursion descends to smaller positions
\* only, its depth is at most index + 1, and a shared operand is evaluated
\* once per reference.
C22_Termination ==
    /\ [](\A i \in 1..Len(call_stack) :
              /\ call_stack[i].node <= index
              /\ i > 1 => call_stack[i].node < call_stack[i - 1].node)
    /\ [](Len(call_stack) <= index + 1)
    /\ [](\A n \in 1..Len(calls) :
              /\ calls[n] <= Paths(expr, index, n - 1)
              /\ (Called /\ ~IsPanic(result)) => calls[n] = Paths(expr, index, n - 1))
    /\ [](Called => (call_stack = <<>> /\ result = interpret(expr, index, env)))
    /\ (call_stack # <<>>) ~> Called

\* a product of one access with itself has returned: the access and the
\* symbol below it were evaluated twice, the recursion three calls deep
C22_Witness ==
    /\ Called
    /\ expr = <<Node("Symbol", <<>>, 0, "t"), Node("AccessTensor", <<0>>, 0, ""),
                Node("AccessCartesianProduct", <<1, 1>>, 0, "")>>
    /\ index = 2
    /\ result.kind = "Access"
    /\ calls = <<2, 2, 1>>

\* the recursion at its deepest: index + 1 calls in progress
C22_WitnessDepth ==
    /\ index = 2
    /\ Len(call_stack) = 3
====
